---- MODULE Spec2Model ----
(***************************************************************************)
(* The statement parser of the CBC compiler (parser_parse_statements and   *)
(* its helpers), with the statement stack modelled cell by cell, the       *)
(* byte-code buffer instruction by instruction and the heap of branch      *)
(* nodes as the set of nodes currently allocated.                          *)
(*                                                                         *)
(* One token of source text is one unit of the source cursor.  An          *)
(* expression is a single operand token (true, false, an identifier, a     *)
(* string) or the token ! that stands for a negated operand; the           *)
(* expression parser, the lexer, the emitter and the paged stack are not   *)
(* part of the files modelled here and are modelled from their contract.   *)
(***************************************************************************)
EXTENDS Integers, Sequences, FiniteSets, TLC

(* ------------------------------ bounds -------------------------------- *)

\* Number of tokens of the source text handed to the parser, for each of
\* the vocabularies the text is drawn from.
MaxSrcPrologue == 2
MaxSrcSimple == 3
MaxSrcLoops == 8
MaxSrcLabels == 7
MaxSrcBranch == 7
MaxSrcTry == 12
MaxSrcSwitch == 12
MaxSrcBlocks == 8
MaxSrcExits == 8
MaxSrcNested == 14
MaxSrcForIn == 11
MaxSrcWidth == 11
MaxScan == 5
MaxScanFunction == 8

\* The largest value of the status flags of a byte-code header, of the mask
\* CBC_CODE_FLAGS_FULL_LITERAL_ENCODING and of cbc_literal_encoding_small.
MaxStatusFlags == 15

\* The byte code vm_loop runs: its number of instructions, the number of
\* literals of its header, and the largest value of the status flags and
\* of the two constants of the encoding test when code is run.
MaxVmCode == 4
MaxVmLiteral == 2
MaxVmFlags == 1

\* The number of values of the static array vm_stack.
VmStackSize == 1024

(* ------------------------- statement types ---------------------------- *)

PARSER_STATEMENT_START == 0
PARSER_STATEMENT_BLOCK == 1
PARSER_STATEMENT_LABEL == 2
PARSER_STATEMENT_IF == 3
PARSER_STATEMENT_ELSE == 4
PARSER_STATEMENT_SWITCH == 5
PARSER_STATEMENT_SWITCH_NO_DEFAULT == 6
PARSER_STATEMENT_DO_WHILE == 7
PARSER_STATEMENT_WHILE == 8
PARSER_STATEMENT_FOR == 9
PARSER_STATEMENT_FOR_IN == 10
PARSER_STATEMENT_WITH == 11
PARSER_STATEMENT_TRY == 12

\* First symbol of the scanner's stack alphabet; it shares the statement stack.
SCAN_STACK_HEAD == 0

\* sizeof of the frame structures, in stack cells: one cell per member.
SizeofLoop == 1
SizeofLabel == 2
SizeofIfElse == 1
SizeofSwitch == 2
SizeofDoWhile == 1
SizeofWhile == 3
SizeofFor == 4
SizeofForIn == 2
SizeofWith == 1
SizeofTry == 2

\* What reading one byte gives when the byte belongs to a structure member.
DataByte == 255

statement_lengths ==
  << 1,
     SizeofLabel + 1,
     SizeofIfElse + 1,
     SizeofIfElse + 1,
     SizeofSwitch + SizeofLoop + 1,
     SizeofSwitch + SizeofLoop + 1,
     SizeofDoWhile + SizeofLoop + 1,
     SizeofWhile + SizeofLoop + 1,
     SizeofFor + SizeofLoop + 1,
     SizeofForIn + SizeofLoop + 1,
     SizeofWith + 1,
     SizeofTry + 1 >>

\* The table with the WHILE entry computed from the for structure.
parser_statement_length_wrong(type) ==
  IF type >= PARSER_STATEMENT_BLOCK /\ type <= PARSER_STATEMENT_TRY
    THEN IF type = PARSER_STATEMENT_WHILE
           THEN SizeofFor + SizeofLoop + 1
           ELSE statement_lengths[type - PARSER_STATEMENT_BLOCK + 1]
    ELSE 0

\* 0 stands for the failed assertion on the type.
parser_statement_length(type) ==
  IF type >= PARSER_STATEMENT_BLOCK /\ type <= PARSER_STATEMENT_TRY
    THEN statement_lengths[type - PARSER_STATEMENT_BLOCK + 1]
    ELSE 0

PARSER_WITH_CONTEXT_STACK_ALLOCATION == 1
PARSER_FOR_IN_CONTEXT_STACK_ALLOCATION == 2
PARSER_TRY_CONTEXT_STACK_ALLOCATION == 2

PARSER_USE_STRICT_LITERAL == << "u", "s", "e", " ", "s", "t", "r", "i", "c", "t" >>
PARSER_USE_STRICT_LENGTH == 10

PARSER_CBC_UNAVAILABLE == "PARSER_CBC_UNAVAILABLE"

(* ------------------------------ state --------------------------------- *)

VARIABLES
  lang,                          \* the vocabulary the source text is drawn from
  source,                        \* the tokens of the source text lexed so far
  pc,                            \* position in parser_parse_statements
  err,                           \* error passed to parser_raise_error
  statement_terminator_required, \* local of the statement-terminator loop
  token,                         \* context_p->token
  source_p,                      \* context_p->source_p, in tokens
  source_end_p,                  \* context_p->source_end_p
  status_flags,                  \* context_p->status_flags
  stack,                         \* context_p->stack, bottom first
  stack_top_uint8,               \* context_p->stack_top_uint8
  last_statement,                \* context_p->last_statement (0 is NULL)
  code,                          \* the byte-code buffer
  last_cbc_opcode,               \* context_p->last_cbc_opcode
  stack_depth,                   \* context_p->stack_depth
  context_stack_depth,           \* context_p->context_stack_depth
  allocated,                     \* branch nodes allocated and not freed
  heap_fault,                    \* a node was freed twice or a patch missed
  vm,                            \* the locals of vm_loop, when it is what runs
  scan_range                     \* *range_p of parser_scan_until, step by step

vars ==
  << lang, source, pc, err, statement_terminator_required, token, source_p, source_end_p,
     status_flags, stack, stack_top_uint8, last_statement, code,
     last_cbc_opcode, stack_depth, context_stack_depth, allocated, heap_fault,
     vm, scan_range >>

\* vm_loop does not run while the parser does.
NoVm == [at |-> "none"]

\* The range of a scan that has not begun.
NoRange == [source_p |-> 0, source_end_p |-> 0]

\* The context as one record, threaded through the calls of a handler.
Cx ==
  [ token |-> token, sp |-> source_p, send |-> source_end_p,
    flags |-> status_flags, stack |-> stack, top |-> stack_top_uint8,
    last |-> last_statement, code |-> code, lastop |-> last_cbc_opcode,
    depth |-> stack_depth, cdepth |-> context_stack_depth,
    alloc |-> allocated, fault |-> heap_fault, err |-> "none",
    src |-> source, fill |-> << >>, range |-> scan_range ]

Ok(c) == c.err = "none"

\* The non-local exit: nothing after it in the handler runs.
parser_raise_error(c, e) == IF Ok(c) THEN [c EXCEPT !.err = e] ELSE c

(* --------------------------- statement stack -------------------------- *)

U8(v) == [k |-> "u8", v |-> v]

TopByte(s) ==
  IF s = << >> THEN DataByte
  ELSE IF s[Len(s)].k = "u8" THEN s[Len(s)].v ELSE DataByte

parser_stack_push_uint8(c, v) ==
  IF ~Ok(c) THEN c
  ELSE [c EXCEPT !.stack = Append(@, U8(v)), !.top = v]

parser_stack_pop_uint8(c) ==
  IF ~Ok(c) THEN c
  ELSE LET s == SubSeq(c.stack, 1, Len(c.stack) - 1)
       IN [c EXCEPT !.stack = s, !.top = TopByte(s)]

parser_stack_push(c, cells) ==
  IF ~Ok(c) THEN c
  ELSE LET s == c.stack \o cells
       IN [c EXCEPT !.stack = s, !.top = TopByte(s)]

parser_stack_pop(c, length) ==
  IF ~Ok(c) THEN c
  ELSE LET n == IF length > Len(c.stack) THEN 0 ELSE Len(c.stack) - length
           s == SubSeq(c.stack, 1, n)
       IN [c EXCEPT !.stack = s, !.top = TopByte(s)]

\* The length cells below the top, as parser_stack_pop copies them out.
StackTop(c, length) ==
  IF length > Len(c.stack) THEN << >>
  ELSE SubSeq(c.stack, Len(c.stack) - length + 1, Len(c.stack))

parser_stack_iterator_init(c) == Len(c.stack)

parser_stack_iterator_read_uint8(c, it) ==
  IF it >= 1 /\ it <= Len(c.stack)
    THEN IF c.stack[it].k = "u8" THEN c.stack[it].v ELSE DataByte
    ELSE DataByte

parser_stack_iterator_skip(it, length) == it - length

parser_stack_iterator_read(c, it, length) ==
  IF it - length + 1 >= 1 /\ it <= Len(c.stack)
    THEN SubSeq(c.stack, it - length + 1, it)
    ELSE << >>

parser_stack_iterator_write(c, it, cells) ==
  IF ~Ok(c) THEN c
  ELSE IF it - Len(cells) + 1 >= 1 /\ it <= Len(c.stack)
    THEN [c EXCEPT !.stack =
            [i \in 1..Len(c.stack) |->
               IF i > it - Len(cells) /\ i <= it
                 THEN cells[i - (it - Len(cells))]
                 ELSE c.stack[i]]]
    ELSE c

\* parser_stack_change_last_uint8 without the update of the cached top byte.
parser_stack_change_last_uint8_nocache(c, new_value) ==
  IF ~Ok(c) THEN c
  ELSE [c EXCEPT !.stack = [@ EXCEPT ![Len(c.stack)] = U8(new_value)]]

parser_stack_change_last_uint8(c, new_value) ==
  IF ~Ok(c) THEN c
  ELSE [c EXCEPT !.stack = [@ EXCEPT ![Len(c.stack)] = U8(new_value)],
                 !.top = new_value]

\* A member of a structure read back from the cells it was pushed as.
Field(cells, name, dflt) ==
  IF \E i \in DOMAIN cells : cells[i].k = name
    THEN cells[CHOOSE i \in DOMAIN cells : cells[i].k = name].v
    ELSE dflt

NullBranch == [offset |-> -1]
NullRange == [source_p |-> -1, source_end_p |-> -1]
NullIdent == [type |-> "NONE", chars |-> << >>, has_escape |-> FALSE]

LoopCells(l) == << [k |-> "loop.branch_list_p", v |-> l.branch_list_p] >>
LoopOf(cells) == [branch_list_p |-> Field(cells, "loop.branch_list_p", << >>)]

LabelCells(l) ==
  << [k |-> "label.label_ident", v |-> l.label_ident],
     [k |-> "label.break_list_p", v |-> l.break_list_p] >>
LabelOf(cells) ==
  [ label_ident |-> Field(cells, "label.label_ident", NullIdent),
    break_list_p |-> Field(cells, "label.break_list_p", << >>) ]

IfElseCells(s) == << [k |-> "if_else.branch", v |-> s.branch] >>
IfElseOf(cells) == [branch |-> Field(cells, "if_else.branch", NullBranch)]

SwitchCells(s) ==
  << [k |-> "switch.default_branch", v |-> s.default_branch],
     [k |-> "switch.branch_list_p", v |-> s.branch_list_p] >>
SwitchOf(cells) ==
  [ default_branch |-> Field(cells, "switch.default_branch", NullBranch),
    branch_list_p |-> Field(cells, "switch.branch_list_p", << >>) ]

DoWhileCells(s) == << [k |-> "do_while.start_offset", v |-> s.start_offset] >>
DoWhileOf(cells) == [start_offset |-> Field(cells, "do_while.start_offset", 0)]

WhileCells(s) ==
  << [k |-> "while.branch", v |-> s.branch],
     [k |-> "while.condition_range", v |-> s.condition_range],
     [k |-> "while.start_offset", v |-> s.start_offset] >>
WhileOf(cells) ==
  [ branch |-> Field(cells, "while.branch", NullBranch),
    condition_range |-> Field(cells, "while.condition_range", NullRange),
    start_offset |-> Field(cells, "while.start_offset", 0) ]

ForCells(s) ==
  << [k |-> "for.branch", v |-> s.branch],
     [k |-> "for.condition_range", v |-> s.condition_range],
     [k |-> "for.expression_range", v |-> s.expression_range],
     [k |-> "for.start_offset", v |-> s.start_offset] >>
ForOf(cells) ==
  [ branch |-> Field(cells, "for.branch", NullBranch),
    condition_range |-> Field(cells, "for.condition_range", NullRange),
    expression_range |-> Field(cells, "for.expression_range", NullRange),
    start_offset |-> Field(cells, "for.start_offset", 0) ]

ForInCells(s) ==
  << [k |-> "for_in.branch", v |-> s.branch],
     [k |-> "for_in.start_offset", v |-> s.start_offset] >>
ForInOf(cells) ==
  [ branch |-> Field(cells, "for_in.branch", NullBranch),
    start_offset |-> Field(cells, "for_in.start_offset", 0) ]

WithCells(s) == << [k |-> "with.branch", v |-> s.branch] >>
WithOf(cells) == [branch |-> Field(cells, "with.branch", NullBranch)]

TryCells(s) ==
  << [k |-> "try.type", v |-> s.type],
     [k |-> "try.branch", v |-> s.branch] >>
TryOf(cells) ==
  [ type |-> Field(cells, "try.type", "parser_try_block"),
    branch |-> Field(cells, "try.branch", NullBranch) ]

(* ------------------------------ emitter ------------------------------- *)

\* Effect of an opcode on the depth of the value stack.
StackAdjust(op) ==
  CASE op \in {"CBC_PUSH_IDENT", "CBC_PUSH_LITERAL", "CBC_PUSH_TRUE",
               "CBC_PUSH_FALSE", "CBC_EXT_PUSH_UNDEFINED_BASE",
               "CBC_EXT_FOR_IN_GET_NEXT", "CBC_EXT_CATCH"} -> 1
    [] op \in {"CBC_POP", "CBC_POP_BLOCK", "CBC_THROW", "CBC_RETURN",
               "CBC_ASSIGN_IDENT", "CBC_ADD", "CBC_STRICT_EQUAL",
               "CBC_BRANCH_IF_STRICT_EQUAL",
               "CBC_BRANCH_IF_TRUE_FORWARD", "CBC_BRANCH_IF_FALSE_FORWARD",
               "CBC_BRANCH_IF_TRUE_BACKWARD", "CBC_BRANCH_IF_FALSE_BACKWARD"} -> -1
    [] op = "CBC_ASSIGN" -> -3
    [] op = "CBC_EXT_WITH_CREATE_CONTEXT" -> PARSER_WITH_CONTEXT_STACK_ALLOCATION - 1
    [] op = "CBC_EXT_FOR_IN_CREATE_CONTEXT" -> PARSER_FOR_IN_CONTEXT_STACK_ALLOCATION - 1
    [] op = "CBC_EXT_TRY_CREATE_CONTEXT" -> PARSER_TRY_CONTEXT_STACK_ALLOCATION
    [] OTHER -> 0

\* One instruction of the buffer: arg is the branch displacement (0 while the
\* operand of a forward branch is still the placeholder), patched counts the
\* writes of the operand.
Instr(op, arg) == [op |-> op, arg |-> arg, patched |-> 0]

IsForwardBranch(op) ==
  op \in {"CBC_JUMP_FORWARD", "CBC_JUMP_FORWARD_EXIT_CONTEXT",
          "CBC_BRANCH_IF_TRUE_FORWARD", "CBC_BRANCH_IF_FALSE_FORWARD",
          "CBC_BRANCH_IF_STRICT_EQUAL", "CBC_EXT_WITH_CREATE_CONTEXT",
          "CBC_EXT_FOR_IN_CREATE_CONTEXT", "CBC_EXT_TRY_CREATE_CONTEXT",
          "CBC_EXT_CATCH", "CBC_EXT_FINALLY"}

IsBackwardBranch(op) ==
  op \in {"CBC_JUMP_BACKWARD", "CBC_BRANCH_IF_TRUE_BACKWARD",
          "CBC_BRANCH_IF_FALSE_BACKWARD", "CBC_EXT_BRANCH_IF_FOR_IN_HAS_NEXT"}

parser_flush_cbc(c) ==
  IF ~Ok(c) \/ c.lastop = PARSER_CBC_UNAVAILABLE THEN c
  ELSE [c EXCEPT !.code = Append(@, Instr(c.lastop, 0)),
                 !.depth = @ + StackAdjust(c.lastop),
                 !.lastop = PARSER_CBC_UNAVAILABLE]

byte_code_size(c) == Len(c.code)

parser_emit_cbc(c, op) ==
  IF ~Ok(c) THEN c ELSE [parser_flush_cbc(c) EXCEPT !.lastop = op]

parser_emit_cbc_ext(c, op) == parser_emit_cbc(c, op)

parser_emit_cbc_literal(c, op) == parser_emit_cbc(c, op)

\* The branch a forward-branch emission hands back: its place in the buffer.
BranchHere(c) == [offset |-> Len(parser_flush_cbc(c).code)]

parser_emit_cbc_forward_branch(c, op) ==
  IF ~Ok(c) THEN c
  ELSE LET f == parser_flush_cbc(c)
       IN [f EXCEPT !.code = Append(@, Instr(op, 0)),
                    !.depth = @ + StackAdjust(op)]

parser_emit_cbc_ext_forward_branch(c, op) == parser_emit_cbc_forward_branch(c, op)

parser_emit_cbc_backward_branch(c, op, target) ==
  LET Emit(f) == [f EXCEPT !.code = Append(@, Instr(op, Len(f.code) - target)),
                            !.depth = @ + StackAdjust(op)]
  IN IF ~Ok(c) THEN c ELSE Emit(parser_flush_cbc(c))

parser_emit_cbc_ext_backward_branch(c, op, target) ==
  parser_emit_cbc_backward_branch(c, op, target)

parser_set_branch_to_current_position(c, branch) ==
  LET Patch(f, o) ==
        IF o >= 0 /\ o < Len(f.code) /\ IsForwardBranch(f.code[o + 1].op)
          THEN [f EXCEPT !.code[o + 1].arg = Len(f.code) - o,
                         !.code[o + 1].patched = @ + 1]
          ELSE [f EXCEPT !.fault = TRUE]
  IN IF ~Ok(c) THEN c ELSE Patch(parser_flush_cbc(c), branch.offset)

\* A branch node: the branch, and cont for the highest bit of its offset.
Node(branch, cont) == [offset |-> branch.offset, cont |-> cont]

\* The emission of the branch of a new node; NewItem is the list it heads.
parser_emit_cbc_forward_branch_item(c, op) ==
  IF ~Ok(c) THEN c
  ELSE LET f == parser_emit_cbc_forward_branch(c, op)
       IN [f EXCEPT !.alloc = @ \cup {BranchHere(c).offset}]

NewItem(c, next_p) == << Node(BranchHere(c), FALSE) >> \o next_p

MarkContinue(list) == [list EXCEPT ![1].cont = TRUE]

parser_free(c, node) ==
  IF ~Ok(c) THEN c
  ELSE IF node.offset \in c.alloc
    THEN [c EXCEPT !.alloc = @ \ {node.offset}]
    ELSE [c EXCEPT !.fault = TRUE]

RECURSIVE parser_set_breaks_to_current_position(_, _)
parser_set_breaks_to_current_position(c, list) ==
  IF list = << >> THEN c
  ELSE LET n == Head(list)
           p == IF n.cont THEN c
                ELSE parser_set_branch_to_current_position(c, n)
       IN parser_set_breaks_to_current_position(parser_free(p, n), Tail(list))

RECURSIVE parser_set_continues_to_current_position(_, _)
parser_set_continues_to_current_position(c, list) ==
  IF list = << >> THEN c
  ELSE LET n == Head(list)
           p == IF n.cont THEN parser_set_branch_to_current_position(c, n)
                ELSE c
       IN parser_set_continues_to_current_position(p, Tail(list))

RECURSIVE FreeList(_, _)
FreeList(c, list) ==
  IF list = << >> THEN c
  ELSE FreeList(parser_free(c, Head(list)), Tail(list))

(* ------------------------------- lexer -------------------------------- *)

Tok(type, nl) ==
  [ type |-> type, was_newline |-> nl, lit_location |-> NullIdent,
    literal_is_reserved |-> "0" ]

IdentTok(chars, nl, reserved) ==
  [ type |-> "LEXER_LITERAL", was_newline |-> nl,
    lit_location |-> [type |-> "LEXER_IDENT_LITERAL", chars |-> chars,
                      has_escape |-> FALSE],
    literal_is_reserved |-> reserved ]

StringTok(chars, nl) ==
  [ type |-> "LEXER_LITERAL", was_newline |-> nl,
    lit_location |-> [type |-> "LEXER_STRING_LITERAL", chars |-> chars,
                      has_escape |-> \E i \in DOMAIN chars : chars[i] = "\\"],
    literal_is_reserved |-> "0" ]

IsIdent(t) ==
  t.type = "LEXER_LITERAL" /\ t.lit_location.type = "LEXER_IDENT_LITERAL"

IsString(t) ==
  t.type = "LEXER_LITERAL" /\ t.lit_location.type = "LEXER_STRING_LITERAL"

LEXER_IS_BINARY_OP_TOKEN(type) == type \in {"LEXER_ADD", "LEXER_ASSIGN"}

LEXER_IS_UNARY_OP_TOKEN(type) == type \in {"LEXER_LOGICAL_NOT"}

\* The end of the source as lexer_next_token reports it.
EosTok(nl) == Tok("LEXER_EOS", nl)

\* The token at the cursor.  Text that was lexed before is lexed again as it
\* was; new text is taken from fill, the text that follows in the source.
\* At the end of the text fill tells whether a newline precedes the end.
lexer_next_token(c) ==
  IF ~Ok(c) THEN c
  ELSE IF c.sp >= c.send
    THEN [c EXCEPT !.token = EosTok(c.sp >= Len(c.src) /\ c.fill # << >>
                                    /\ Head(c.fill).was_newline)]
  ELSE IF c.sp < Len(c.src)
    THEN [c EXCEPT !.token = c.src[c.sp + 1], !.sp = @ + 1]
  ELSE IF c.fill # << >>
    THEN [c EXCEPT !.token = Head(c.fill), !.sp = @ + 1,
                   !.src = Append(@, Head(c.fill)), !.fill = Tail(@)]
  ELSE [c EXCEPT !.err = "SOURCE_TEXT_MISSING"]

\* The token type must be the expected one.
ExpectType(c, type, e) ==
  IF ~Ok(c) THEN c
  ELSE IF c.token.type # type THEN parser_raise_error(c, e)
  ELSE c

lexer_expect_identifier(c) ==
  LET Check(n) == IF IsIdent(n.token) THEN n
                  ELSE parser_raise_error(n, "PARSER_ERR_IDENTIFIER_EXPECTED")
  IN Check(lexer_next_token(c))

lexer_scan_identifier(c) == lexer_next_token(c)

lexer_same_identifiers(left, right) == left.chars = right.chars

\* The function is compiled by a nested parser run over its own text,
\* which is one unit of the source here.
lexer_construct_function_object(c) ==
  ExpectType(lexer_next_token(c), "LEXER_FUNCTION_TEXT",
             "PARSER_ERR_ARGUMENT_LIST_EXPECTED")

(* -------------------------- expression parser ------------------------- *)

\* An expression is one operand.  With PARSE_EXPR_HAS_LITERAL the operand
\* is already the cached opcode and the current token is the one after it:
\* a binary operator (which stands for the operator and its right operand)
\* is then consumed, and an assignment turns the cached identifier into
\* the target of the store.
parser_parse_expression(c, options) ==
  LET ty == c.token.type
      has_literal == "PARSE_EXPR_HAS_LITERAL" \in options
      assigned == has_literal /\ ty = "LEXER_ASSIGN"
      \* the opcodes of the operand
      opcodes ==
        IF has_literal
          THEN CASE ty = "LEXER_ADD" -> << "CBC_PUSH_LITERAL", "CBC_ADD" >>
                 [] ty = "LEXER_ASSIGN" -> << "CBC_PUSH_LITERAL", "CBC_ASSIGN_IDENT" >>
                 [] OTHER -> << >>
          ELSE CASE ty = "LEXER_LIT_TRUE" -> << "CBC_PUSH_TRUE" >>
                 [] ty = "LEXER_LIT_FALSE" -> << "CBC_PUSH_FALSE" >>
                 [] ty = "LEXER_LOGICAL_NOT" -> << "CBC_PUSH_IDENT", "CBC_LOGICAL_NOT" >>
                 [] ty = "LEXER_LITERAL" ->
                      << IF IsIdent(c.token) THEN "CBC_PUSH_IDENT"
                         ELSE "CBC_PUSH_LITERAL" >>
                 [] OTHER -> << >>
      Emit(d) ==
        IF Len(opcodes) = 2
          THEN parser_emit_cbc(parser_emit_cbc(d, opcodes[1]), opcodes[2])
          ELSE parser_emit_cbc(d, opcodes[1])
      Operand(d) ==
        IF opcodes = << >>
          THEN IF has_literal THEN d
               ELSE parser_raise_error(d, "PARSER_ERR_PRIMARY_EXP_EXPECTED")
          ELSE lexer_next_token(Emit(d))
      End(d) ==
        IF assigned THEN d
        ELSE IF "PARSE_EXPR_STATEMENT" \in options
          THEN parser_emit_cbc(d, "CBC_POP")
        ELSE IF "PARSE_EXPR_BLOCK" \in options
          THEN parser_emit_cbc(d, "CBC_POP_BLOCK")
        ELSE d
  IN IF ~Ok(c) THEN c
     ELSE End(Operand(IF assigned
                        THEN [c EXCEPT !.lastop = PARSER_CBC_UNAVAILABLE]
                        ELSE c))

(* ------------------------------ scanner ------------------------------- *)

SCAN_STACK_PAREN_EXPRESSION == 1
SCAN_STACK_PAREN_STATEMENT == 2
SCAN_STACK_COLON_EXPRESSION == 3
SCAN_STACK_COLON_STATEMENT == 4
SCAN_STACK_SQUARE_BRACKETED_EXPRESSION == 5
SCAN_STACK_OBJECT_LITERAL == 6
SCAN_STACK_BLOCK_STATEMENT == 7
SCAN_STACK_BLOCK_EXPRESSION == 8
SCAN_STACK_BLOCK_PROPERTY == 9

\* What a scan function hands back: the context, the mode, its return value.
ScanResult(c, mode, r) == [c |-> c, mode |-> mode, r |-> r]



\* The primary expression where a right parenthesis closes any symbol.
parser_scan_primary_expression_anyparen(c, type, stack_top, mode) ==
  CASE type = "LEXER_KEYW_NEW" ->
         ScanResult(c, "SCAN_MODE_PRIMARY_EXPRESSION_AFTER_NEW", FALSE)
    [] type = "LEXER_KEYW_FUNCTION" ->
         ScanResult(parser_stack_push_uint8(c, SCAN_STACK_BLOCK_EXPRESSION),
                    "SCAN_MODE_FUNCTION_ARGUMENTS", FALSE)
    [] type = "LEXER_LEFT_PAREN" ->
         ScanResult(parser_stack_push_uint8(c, SCAN_STACK_PAREN_EXPRESSION),
                    "SCAN_MODE_PRIMARY_EXPRESSION", FALSE)
    [] type = "LEXER_LEFT_SQUARE" ->
         ScanResult(parser_stack_push_uint8(c, SCAN_STACK_SQUARE_BRACKETED_EXPRESSION),
                    "SCAN_MODE_PRIMARY_EXPRESSION", FALSE)
    [] type = "LEXER_LEFT_BRACE" ->
         ScanResult(parser_stack_push_uint8(c, SCAN_STACK_OBJECT_LITERAL),
                    "SCAN_MODE_PROPERTY_NAME", TRUE)
    [] type \in {"LEXER_LITERAL", "LEXER_KEYW_THIS", "LEXER_LIT_TRUE",
                 "LEXER_LIT_FALSE", "LEXER_LIT_NULL"} ->
         ScanResult(c, "SCAN_MODE_POST_PRIMARY_EXPRESSION", FALSE)
    [] type = "LEXER_RIGHT_SQUARE" ->
         IF stack_top # SCAN_STACK_SQUARE_BRACKETED_EXPRESSION
           THEN ScanResult(parser_raise_error(c, "PARSER_ERR_PRIMARY_EXP_EXPECTED"),
                           mode, FALSE)
           ELSE ScanResult(parser_stack_pop_uint8(c),
                           "SCAN_MODE_POST_PRIMARY_EXPRESSION", FALSE)
    [] type = "LEXER_COMMA" ->
         IF stack_top # SCAN_STACK_SQUARE_BRACKETED_EXPRESSION
           THEN ScanResult(parser_raise_error(c, "PARSER_ERR_PRIMARY_EXP_EXPECTED"),
                           mode, FALSE)
           ELSE ScanResult(c, "SCAN_MODE_PRIMARY_EXPRESSION", FALSE)
    [] type = "LEXER_RIGHT_PAREN" ->
         IF stack_top = SCAN_STACK_PAREN_STATEMENT
           THEN ScanResult(parser_stack_pop_uint8(c), "SCAN_MODE_STATEMENT", FALSE)
         ELSE ScanResult(parser_stack_pop_uint8(c),
                         "SCAN_MODE_POST_PRIMARY_EXPRESSION", FALSE)
    [] type = "LEXER_SEMICOLON" ->
         IF stack_top # SCAN_STACK_PAREN_STATEMENT
           THEN ScanResult(parser_raise_error(c, "PARSER_ERR_PRIMARY_EXP_EXPECTED"),
                           mode, FALSE)
           ELSE ScanResult(c, "SCAN_MODE_PRIMARY_EXPRESSION", FALSE)
    [] OTHER ->
         ScanResult(parser_raise_error(c, "PARSER_ERR_PRIMARY_EXP_EXPECTED"),
                    mode, FALSE)

parser_scan_primary_expression(c, type, stack_top, mode) ==
  CASE type = "LEXER_KEYW_NEW" ->
         ScanResult(c, "SCAN_MODE_PRIMARY_EXPRESSION_AFTER_NEW", FALSE)
    [] type = "LEXER_KEYW_FUNCTION" ->
         ScanResult(parser_stack_push_uint8(c, SCAN_STACK_BLOCK_EXPRESSION),
                    "SCAN_MODE_FUNCTION_ARGUMENTS", FALSE)
    [] type = "LEXER_LEFT_PAREN" ->
         ScanResult(parser_stack_push_uint8(c, SCAN_STACK_PAREN_EXPRESSION),
                    "SCAN_MODE_PRIMARY_EXPRESSION", FALSE)
    [] type = "LEXER_LEFT_SQUARE" ->
         ScanResult(parser_stack_push_uint8(c, SCAN_STACK_SQUARE_BRACKETED_EXPRESSION),
                    "SCAN_MODE_PRIMARY_EXPRESSION", FALSE)
    [] type = "LEXER_LEFT_BRACE" ->
         ScanResult(parser_stack_push_uint8(c, SCAN_STACK_OBJECT_LITERAL),
                    "SCAN_MODE_PROPERTY_NAME", TRUE)
    [] type \in {"LEXER_LITERAL", "LEXER_KEYW_THIS", "LEXER_LIT_TRUE",
                 "LEXER_LIT_FALSE", "LEXER_LIT_NULL"} ->
         ScanResult(c, "SCAN_MODE_POST_PRIMARY_EXPRESSION", FALSE)
    [] type = "LEXER_RIGHT_SQUARE" ->
         IF stack_top # SCAN_STACK_SQUARE_BRACKETED_EXPRESSION
           THEN ScanResult(parser_raise_error(c, "PARSER_ERR_PRIMARY_EXP_EXPECTED"),
                           mode, FALSE)
           ELSE ScanResult(parser_stack_pop_uint8(c),
                           "SCAN_MODE_POST_PRIMARY_EXPRESSION", FALSE)
    [] type = "LEXER_COMMA" ->
         IF stack_top # SCAN_STACK_SQUARE_BRACKETED_EXPRESSION
           THEN ScanResult(parser_raise_error(c, "PARSER_ERR_PRIMARY_EXP_EXPECTED"),
                           mode, FALSE)
           ELSE ScanResult(c, "SCAN_MODE_PRIMARY_EXPRESSION", FALSE)
    [] type = "LEXER_RIGHT_PAREN" ->
         IF stack_top = SCAN_STACK_PAREN_STATEMENT
           THEN ScanResult(parser_stack_pop_uint8(c), "SCAN_MODE_STATEMENT", FALSE)
         ELSE IF stack_top # SCAN_STACK_PAREN_EXPRESSION
           THEN ScanResult(parser_raise_error(c, "PARSER_ERR_PRIMARY_EXP_EXPECTED"),
                           mode, FALSE)
         ELSE ScanResult(parser_stack_pop_uint8(c),
                         "SCAN_MODE_POST_PRIMARY_EXPRESSION", FALSE)
    [] type = "LEXER_SEMICOLON" ->
         IF stack_top # SCAN_STACK_PAREN_STATEMENT
           THEN ScanResult(parser_raise_error(c, "PARSER_ERR_PRIMARY_EXP_EXPECTED"),
                           mode, FALSE)
           ELSE ScanResult(c, "SCAN_MODE_PRIMARY_EXPRESSION", FALSE)
    [] OTHER ->
         ScanResult(parser_raise_error(c, "PARSER_ERR_PRIMARY_EXP_EXPECTED"),
                    mode, FALSE)

parser_scan_post_primary_expression(c, type, mode) ==
  CASE type = "LEXER_DOT" -> ScanResult(lexer_scan_identifier(c), mode, TRUE)
    [] type = "LEXER_LEFT_PAREN" ->
         ScanResult(parser_stack_push_uint8(c, SCAN_STACK_PAREN_EXPRESSION),
                    "SCAN_MODE_PRIMARY_EXPRESSION", TRUE)
    [] type = "LEXER_LEFT_SQUARE" ->
         ScanResult(parser_stack_push_uint8(c, SCAN_STACK_SQUARE_BRACKETED_EXPRESSION),
                    "SCAN_MODE_PRIMARY_EXPRESSION", TRUE)
    [] type \in {"LEXER_INCREASE", "LEXER_DECREASE"} /\ ~c.token.was_newline ->
         ScanResult(c, "SCAN_MODE_PRIMARY_EXPRESSION_END", TRUE)
    [] OTHER -> ScanResult(c, mode, FALSE)

parser_scan_primary_expression_end(c, type, stack_top, end_type, mode) ==
  IF type = "LEXER_QUESTION_MARK"
    THEN ScanResult(parser_stack_push_uint8(c, SCAN_STACK_COLON_EXPRESSION),
                    "SCAN_MODE_PRIMARY_EXPRESSION", FALSE)
  ELSE IF type = "LEXER_COMMA"
    THEN IF stack_top = SCAN_STACK_OBJECT_LITERAL
           THEN ScanResult(c, "SCAN_MODE_PROPERTY_NAME", TRUE)
           ELSE ScanResult(c, "SCAN_MODE_PRIMARY_EXPRESSION", FALSE)
  ELSE IF type = "LEXER_COLON" /\ stack_top = SCAN_STACK_COLON_EXPRESSION
    THEN ScanResult(parser_stack_pop_uint8(c), "SCAN_MODE_PRIMARY_EXPRESSION", FALSE)
  ELSE IF type = "LEXER_COLON" /\ stack_top = SCAN_STACK_COLON_STATEMENT
    THEN ScanResult(parser_stack_pop_uint8(c), "SCAN_MODE_STATEMENT", FALSE)
  ELSE IF \/ LEXER_IS_BINARY_OP_TOKEN(type)
          \/ type = "LEXER_SEMICOLON" /\ stack_top = SCAN_STACK_PAREN_STATEMENT
    THEN ScanResult(c, "SCAN_MODE_PRIMARY_EXPRESSION", FALSE)
  ELSE IF \/ type = "LEXER_RIGHT_SQUARE"
             /\ stack_top = SCAN_STACK_SQUARE_BRACKETED_EXPRESSION
          \/ type = "LEXER_RIGHT_PAREN" /\ stack_top = SCAN_STACK_PAREN_EXPRESSION
          \/ type = "LEXER_RIGHT_BRACE" /\ stack_top = SCAN_STACK_OBJECT_LITERAL
    THEN ScanResult(parser_stack_pop_uint8(c),
                    "SCAN_MODE_POST_PRIMARY_EXPRESSION", FALSE)
  ELSE IF type = "LEXER_RIGHT_PAREN" /\ stack_top = SCAN_STACK_PAREN_STATEMENT
    THEN ScanResult(parser_stack_pop_uint8(c), "SCAN_MODE_STATEMENT", FALSE)
  ELSE IF /\ stack_top # SCAN_STACK_BLOCK_STATEMENT
          /\ stack_top # SCAN_STACK_BLOCK_EXPRESSION
          /\ ~(stack_top = SCAN_STACK_HEAD /\ end_type = "LEXER_SCAN_SWITCH")
    THEN ScanResult(parser_raise_error(c, "PARSER_ERR_INVALID_EXPRESSION"),
                    "SCAN_MODE_STATEMENT", FALSE)
  ELSE IF type = "LEXER_RIGHT_BRACE" \/ c.token.was_newline
    THEN ScanResult(c, "SCAN_MODE_STATEMENT", TRUE)
  ELSE IF type # "LEXER_SEMICOLON"
    THEN ScanResult(parser_raise_error(c, "PARSER_ERR_INVALID_EXPRESSION"),
                    "SCAN_MODE_STATEMENT", FALSE)
  ELSE ScanResult(c, "SCAN_MODE_STATEMENT", FALSE)

parser_scan_statement(c, type, stack_top, mode) ==
  LET AfterFor(n) ==
        ScanResult(parser_stack_push_uint8(n, SCAN_STACK_PAREN_STATEMENT),
                   "SCAN_MODE_PRIMARY_EXPRESSION",
                   n.token.type # "LEXER_KEYW_VAR")
      AfterJump(n) ==
        ScanResult(n, mode, ~(~n.token.was_newline /\ IsIdent(n.token)))
      AfterProperty(n) ==
        ScanResult(
          IF Ok(n) /\ n.token.type \notin {"LEXER_COMMA", "LEXER_RIGHT_BRACE"}
            THEN parser_raise_error(n, "PARSER_ERR_OBJECT_ITEM_SEPARATOR_EXPECTED")
            ELSE n,
          "SCAN_MODE_POST_PRIMARY_EXPRESSION", TRUE)
      AfterIdentifier(n) ==
        IF Ok(n) /\ n.token.type = "LEXER_COLON"
          THEN ScanResult(n, "SCAN_MODE_STATEMENT", FALSE)
          ELSE ScanResult(n, "SCAN_MODE_POST_PRIMARY_EXPRESSION", TRUE)
  IN
  CASE type \in {"LEXER_SEMICOLON", "LEXER_KEYW_ELSE", "LEXER_KEYW_DO",
                 "LEXER_KEYW_RETURN", "LEXER_KEYW_TRY", "LEXER_KEYW_FINALLY",
                 "LEXER_KEYW_DEBUGGER"} ->
         ScanResult(c, mode, FALSE)
    [] type \in {"LEXER_KEYW_IF", "LEXER_KEYW_WHILE", "LEXER_KEYW_WITH",
                 "LEXER_KEYW_SWITCH", "LEXER_KEYW_CATCH"} ->
         ScanResult(
           parser_stack_push_uint8(
             ExpectType(lexer_next_token(c), "LEXER_LEFT_PAREN",
                        "PARSER_ERR_LEFT_PAREN_EXPECTED"),
             SCAN_STACK_PAREN_STATEMENT),
           "SCAN_MODE_PRIMARY_EXPRESSION", FALSE)
    [] type = "LEXER_KEYW_FOR" ->
         AfterFor(lexer_next_token(
                    ExpectType(lexer_next_token(c), "LEXER_LEFT_PAREN",
                               "PARSER_ERR_LEFT_PAREN_EXPECTED")))
    [] type \in {"LEXER_KEYW_VAR", "LEXER_KEYW_THROW"} ->
         ScanResult(c, "SCAN_MODE_PRIMARY_EXPRESSION", FALSE)
    [] type \in {"LEXER_KEYW_BREAK", "LEXER_KEYW_CONTINUE"} ->
         AfterJump(lexer_next_token(c))
    [] type = "LEXER_KEYW_DEFAULT" ->
         ScanResult(ExpectType(lexer_next_token(c), "LEXER_COLON",
                               "PARSER_ERR_COLON_EXPECTED"), mode, FALSE)
    [] type = "LEXER_KEYW_CASE" ->
         ScanResult(parser_stack_push_uint8(c, SCAN_STACK_COLON_STATEMENT),
                    "SCAN_MODE_PRIMARY_EXPRESSION", FALSE)
    [] type = "LEXER_RIGHT_BRACE" /\ stack_top = SCAN_STACK_BLOCK_STATEMENT ->
         ScanResult(parser_stack_pop_uint8(c), mode, FALSE)
    [] type = "LEXER_RIGHT_BRACE" /\ stack_top = SCAN_STACK_BLOCK_EXPRESSION ->
         ScanResult(parser_stack_pop_uint8(c),
                    "SCAN_MODE_POST_PRIMARY_EXPRESSION", FALSE)
    [] type = "LEXER_RIGHT_BRACE" /\ stack_top = SCAN_STACK_BLOCK_PROPERTY ->
         AfterProperty(lexer_next_token(parser_stack_pop_uint8(c)))
    [] type = "LEXER_LEFT_BRACE" ->
         ScanResult(parser_stack_push_uint8(c, SCAN_STACK_BLOCK_STATEMENT),
                    mode, FALSE)
    [] type = "LEXER_KEYW_FUNCTION" ->
         ScanResult(parser_stack_push_uint8(c, SCAN_STACK_BLOCK_STATEMENT),
                    "SCAN_MODE_FUNCTION_ARGUMENTS", FALSE)
    [] OTHER ->
         IF IsIdent(c.token)
           THEN AfterIdentifier(lexer_next_token(c))
           ELSE ScanResult(c, "SCAN_MODE_PRIMARY_EXPRESSION", TRUE)

\* The condition of a PARSER_ASSERT does not hold.
ScanAssertFails(c) == parser_raise_error(c, "PARSER_ASSERT")

\* The loop over the names of the arguments; the current token is the first
\* name, and the token after the last name is the current one at the end.
RECURSIVE ScanArgumentNames(_)
ScanArgumentNames(c) ==
  LET After(n) ==
        IF Ok(n) /\ n.token.type = "LEXER_COMMA"
          THEN ScanArgumentNames(lexer_next_token(n))
          ELSE n
  IN IF ~Ok(c) THEN c
     ELSE IF ~IsIdent(c.token)
       THEN parser_raise_error(c, "PARSER_ERR_IDENTIFIER_EXPECTED")
     ELSE After(lexer_next_token(c))

\* SCAN_MODE_FUNCTION_ARGUMENTS: the name, the arguments and the left brace
\* of the body; the block pushed for the function stays on the stack.
ScanFunctionArguments(c, stack_top) ==
  LET Named(n) == IF IsIdent(n.token) THEN lexer_next_token(n) ELSE n
      Open(n) ==
        lexer_next_token(ExpectType(n, "LEXER_LEFT_PAREN",
                                    "PARSER_ERR_ARGUMENT_LIST_EXPECTED"))
      Arguments(n) ==
        IF Ok(n) /\ n.token.type # "LEXER_RIGHT_PAREN"
          THEN ScanArgumentNames(n) ELSE n
      Close(n) ==
        lexer_next_token(ExpectType(n, "LEXER_RIGHT_PAREN",
                                    "PARSER_ERR_RIGHT_PAREN_EXPECTED"))
      Body(n) ==
        ExpectType(n, "LEXER_LEFT_BRACE", "PARSER_ERR_LEFT_BRACE_EXPECTED")
  IN IF stack_top \notin {SCAN_STACK_BLOCK_STATEMENT,
                          SCAN_STACK_BLOCK_EXPRESSION,
                          SCAN_STACK_BLOCK_PROPERTY}
       THEN ScanResult(ScanAssertFails(c), "SCAN_MODE_FUNCTION_ARGUMENTS", FALSE)
       ELSE ScanResult(Body(Close(Arguments(Open(Named(c))))),
                       "SCAN_MODE_STATEMENT", FALSE)

\* SCAN_MODE_PROPERTY_NAME where an accessor pushes no block.
ScanPropertyName_noblock(c) ==
  LET Name(n) ==
        IF ~Ok(n) THEN ScanResult(n, "SCAN_MODE_PROPERTY_NAME", FALSE)
        ELSE IF n.token.type = "LEXER_RIGHT_BRACE"
          THEN ScanResult(parser_stack_pop_uint8(n),
                          "SCAN_MODE_POST_PRIMARY_EXPRESSION", FALSE)
        ELSE IF n.token.type \in {"LEXER_PROPERTY_GETTER", "LEXER_PROPERTY_SETTER"}
          THEN ScanResult(n, "SCAN_MODE_FUNCTION_ARGUMENTS", FALSE)
        ELSE ScanResult(ExpectType(lexer_next_token(n), "LEXER_COLON",
                                   "PARSER_ERR_COLON_EXPECTED"),
                        "SCAN_MODE_PRIMARY_EXPRESSION", FALSE)
  IN IF c.top # SCAN_STACK_OBJECT_LITERAL
       THEN ScanResult(ScanAssertFails(c), "SCAN_MODE_PROPERTY_NAME", FALSE)
       ELSE Name(lexer_scan_identifier(c))

\* SCAN_MODE_PROPERTY_NAME
ScanPropertyName(c) ==
  LET Name(n) ==
        IF ~Ok(n) THEN ScanResult(n, "SCAN_MODE_PROPERTY_NAME", FALSE)
        ELSE IF n.token.type = "LEXER_RIGHT_BRACE"
          THEN ScanResult(parser_stack_pop_uint8(n),
                          "SCAN_MODE_POST_PRIMARY_EXPRESSION", FALSE)
        ELSE IF n.token.type \in {"LEXER_PROPERTY_GETTER", "LEXER_PROPERTY_SETTER"}
          THEN ScanResult(parser_stack_push_uint8(n, SCAN_STACK_BLOCK_PROPERTY),
                          "SCAN_MODE_FUNCTION_ARGUMENTS", FALSE)
        ELSE ScanResult(ExpectType(lexer_next_token(n), "LEXER_COLON",
                                   "PARSER_ERR_COLON_EXPECTED"),
                        "SCAN_MODE_PRIMARY_EXPRESSION", FALSE)
  IN IF c.top # SCAN_STACK_OBJECT_LITERAL
       THEN ScanResult(ScanAssertFails(c), "SCAN_MODE_PROPERTY_NAME", FALSE)
       ELSE Name(lexer_scan_identifier(c))

\* The body of the loop of parser_scan_until for one mode: r is TRUE for its
\* continue and FALSE for its break.
ScanStep(c, mode, end_type) ==
  LET type == c.token.type
      stack_top == c.top
      End(post) ==
        IF post.r THEN ScanResult(post.c, post.mode, FALSE)
        ELSE parser_scan_primary_expression_end(c, type, stack_top,
                                                end_type, mode)
  IN CASE mode \in {"SCAN_MODE_PRIMARY_EXPRESSION",
                    "SCAN_MODE_PRIMARY_EXPRESSION_AFTER_NEW"} ->
            IF /\ mode = "SCAN_MODE_PRIMARY_EXPRESSION"
               /\ \/ type \in {"LEXER_ADD", "LEXER_SUBTRACT"}
                  \/ LEXER_IS_UNARY_OP_TOKEN(type)
              THEN ScanResult(c, mode, FALSE)
              ELSE parser_scan_primary_expression(c, type, stack_top, mode)
       [] mode \in {"SCAN_MODE_POST_PRIMARY_EXPRESSION",
                    "SCAN_MODE_PRIMARY_EXPRESSION_END"} ->
            End(IF mode = "SCAN_MODE_POST_PRIMARY_EXPRESSION"
                  THEN parser_scan_post_primary_expression(c, type, mode)
                  ELSE ScanResult(c, mode, FALSE))
       [] mode = "SCAN_MODE_STATEMENT" ->
            IF /\ end_type = "LEXER_SCAN_SWITCH"
               /\ stack_top = SCAN_STACK_HEAD
               /\ type \in {"LEXER_KEYW_DEFAULT", "LEXER_KEYW_CASE",
                            "LEXER_RIGHT_BRACE"}
              THEN ScanResult(parser_stack_pop_uint8(c), "SCAN_RETURN", TRUE)
              ELSE parser_scan_statement(c, type, stack_top, mode)
       [] mode = "SCAN_MODE_FUNCTION_ARGUMENTS" ->
            ScanFunctionArguments(c, stack_top)
       [] OTHER -> ScanPropertyName(c)

\* The loop of parser_scan_until; it hands back the context and the range.
RECURSIVE ScanLoop(_, _, _, _, _)
ScanLoop(c, mode, end_type, end_type_b, range) ==
  LET After(step) ==
        IF ~Ok(step.c) \/ step.mode = "SCAN_RETURN"
          THEN [c |-> step.c, range |-> range]
        ELSE ScanLoop(IF step.r THEN step.c ELSE lexer_next_token(step.c),
                      step.mode, end_type, end_type_b,
                      IF step.r THEN range
                      ELSE [range EXCEPT !.source_end_p = step.c.sp])
  IN IF ~Ok(c) THEN [c |-> c, range |-> range]
     ELSE IF c.token.type = "LEXER_EOS"
       THEN [c |-> parser_raise_error(c, "PARSER_ERR_EXPRESSION_EXPECTED"),
             range |-> range]
     ELSE IF c.top = SCAN_STACK_HEAD /\ c.token.type \in {end_type, end_type_b}
       THEN [c |-> parser_stack_pop_uint8(c), range |-> range]
     ELSE After(ScanStep(c, mode, end_type))

parser_scan_until(c, end_type) ==
  LET range == [source_p |-> c.sp, source_end_p |-> c.sp]
      is_switch == end_type = "LEXER_KEYW_CASE"
      SkipVar(n) ==
        IF /\ end_type = "LEXER_KEYW_IN" /\ Ok(n)
           /\ n.token.type = "LEXER_KEYW_VAR"
          THEN lexer_next_token(n) ELSE n
      First(d) == IF is_switch THEN d ELSE SkipVar(lexer_next_token(d))
  IN IF ~Ok(c) THEN [c |-> c, range |-> range]
     ELSE ScanLoop(parser_stack_push_uint8(First(c), SCAN_STACK_HEAD),
                   IF is_switch THEN "SCAN_MODE_STATEMENT"
                   ELSE "SCAN_MODE_PRIMARY_EXPRESSION",
                   IF is_switch THEN "LEXER_SCAN_SWITCH" ELSE end_type,
                   IF is_switch THEN "LEXER_SCAN_SWITCH"
                   ELSE IF end_type = "LEXER_KEYW_IN" THEN "LEXER_SEMICOLON"
                   ELSE end_type,
                   range)

(* ------------------------- statement handlers ------------------------- *)

\* d when nothing was raised so far.
WhenOk(c, d) == IF Ok(c) THEN d ELSE c

\* last_statement is left as it is where it should be set anew.
InitLastStatement_stale(c) == c

\* parser_stack_iterator_init (context_p, &context_p->last_statement)
InitLastStatement(c) ==
  WhenOk(c, [c EXCEPT !.last = parser_stack_iterator_init(c)])

parser_save_range(c, end_p) ==
  [source_p |-> c.sp, source_end_p |-> end_p]

parser_set_range(c, range) ==
  WhenOk(c, [c EXCEPT !.sp = range.source_p, !.send = range.source_end_p])

parser_parse_enclosed_expr(c) ==
  LET c1 == ExpectType(lexer_next_token(c), "LEXER_LEFT_PAREN",
                       "PARSER_ERR_LEFT_PAREN_EXPECTED")
      c2 == parser_parse_expression(lexer_next_token(c1), {"PARSE_EXPR"})
  IN lexer_next_token(ExpectType(c2, "LEXER_RIGHT_PAREN",
                                 "PARSER_ERR_RIGHT_PAREN_EXPECTED"))

RECURSIVE parser_parse_var_statement(_)
parser_parse_var_statement(c) ==
  LET Initialiser(n) ==
        IF Ok(n) /\ n.token.type = "LEXER_ASSIGN"
          THEN parser_parse_expression(n,
                 {"PARSE_EXPR_STATEMENT", "PARSE_EXPR_NO_COMMA",
                  "PARSE_EXPR_HAS_LITERAL"})
          ELSE WhenOk(n, [n EXCEPT !.lastop = PARSER_CBC_UNAVAILABLE])
      Rest(n) ==
        IF Ok(n) /\ n.token.type = "LEXER_COMMA"
          THEN parser_parse_var_statement(n)
          ELSE n
  IN Rest(Initialiser(
            lexer_next_token(
              parser_emit_cbc_literal(lexer_expect_identifier(c),
                                      "CBC_PUSH_IDENT"))))

parser_parse_function_statement(c) ==
  lexer_next_token(lexer_construct_function_object(lexer_expect_identifier(c)))

parser_parse_if_statement_start(c) ==
  LET Push(c1) ==
        InitLastStatement(
          parser_stack_push_uint8(
            parser_stack_push(
              parser_emit_cbc_forward_branch(c1, "CBC_BRANCH_IF_FALSE_FORWARD"),
              IfElseCells([branch |-> BranchHere(c1)])),
            PARSER_STATEMENT_IF))
  IN Push(parser_parse_enclosed_expr(c))

\* c is the context after the call, r the value returned.
\* The end of a then-branch that patches the branch of the condition before
\* it emits the jump over the else-branch.
parser_parse_if_statement_end_before(c) ==
  IF c.token.type # "LEXER_KEYW_ELSE"
    THEN LET c1 == parser_stack_pop_uint8(c)
             if_statement == IfElseOf(StackTop(c1, SizeofIfElse))
             c2 == InitLastStatement(parser_stack_pop(c1, SizeofIfElse))
         IN [c |-> parser_set_branch_to_current_position(c2, if_statement.branch),
             r |-> FALSE]
    ELSE LET c1 == parser_stack_change_last_uint8(c, PARSER_STATEMENT_ELSE)
             iterator == parser_stack_iterator_skip(parser_stack_iterator_init(c1), 1)
             if_statement == IfElseOf(parser_stack_iterator_read(c1, iterator,
                                                                 SizeofIfElse))
             else_statement == [branch |-> BranchHere(c1)]
             c2 == parser_set_branch_to_current_position(c1, if_statement.branch)
             c3 == parser_emit_cbc_forward_branch(c2, "CBC_JUMP_FORWARD")
             c4 == parser_stack_iterator_write(c3, iterator,
                                               IfElseCells(else_statement))
         IN [c |-> lexer_next_token(c4), r |-> TRUE]

\* The end of a then-branch that gives the else to the if statement around
\* it, when there is one: the inner statement is closed without an else.
parser_parse_if_statement_end_outer(c) ==
  IF c.token.type # "LEXER_KEYW_ELSE"
       \/ (Len(c.stack) > 2
             /\ c.stack[Len(c.stack) - 2].k = "u8"
             /\ c.stack[Len(c.stack) - 2].v = PARSER_STATEMENT_IF)
    THEN LET c1 == parser_stack_pop_uint8(c)
             if_statement == IfElseOf(StackTop(c1, SizeofIfElse))
             c2 == InitLastStatement(parser_stack_pop(c1, SizeofIfElse))
         IN [c |-> parser_set_branch_to_current_position(c2, if_statement.branch),
             r |-> FALSE]
    ELSE LET c1 == parser_stack_change_last_uint8(c, PARSER_STATEMENT_ELSE)
             iterator == parser_stack_iterator_skip(parser_stack_iterator_init(c1), 1)
             if_statement == IfElseOf(parser_stack_iterator_read(c1, iterator,
                                                                 SizeofIfElse))
             else_statement == [branch |-> BranchHere(c1)]
             c2 == parser_emit_cbc_forward_branch(c1, "CBC_JUMP_FORWARD")
             c3 == parser_set_branch_to_current_position(c2, if_statement.branch)
             c4 == parser_stack_iterator_write(c3, iterator,
                                               IfElseCells(else_statement))
         IN [c |-> lexer_next_token(c4), r |-> TRUE]

parser_parse_if_statement_end(c) ==
  IF c.token.type # "LEXER_KEYW_ELSE"
    THEN LET c1 == parser_stack_pop_uint8(c)
             if_statement == IfElseOf(StackTop(c1, SizeofIfElse))
             c2 == InitLastStatement(parser_stack_pop(c1, SizeofIfElse))
         IN [c |-> parser_set_branch_to_current_position(c2, if_statement.branch),
             r |-> FALSE]
    ELSE LET c1 == parser_stack_change_last_uint8(c, PARSER_STATEMENT_ELSE)
             iterator == parser_stack_iterator_skip(parser_stack_iterator_init(c1), 1)
             if_statement == IfElseOf(parser_stack_iterator_read(c1, iterator,
                                                                 SizeofIfElse))
             else_statement == [branch |-> BranchHere(c1)]
             c2 == parser_emit_cbc_forward_branch(c1, "CBC_JUMP_FORWARD")
             c3 == parser_set_branch_to_current_position(c2, if_statement.branch)
             c4 == parser_stack_iterator_write(c3, iterator,
                                               IfElseCells(else_statement))
         IN [c |-> lexer_next_token(c4), r |-> TRUE]

\* The with statement that is let into strict mode code.
parser_parse_with_statement_start_sloppy(c) ==
  LET Push(c2) ==
        InitLastStatement(
          parser_stack_push_uint8(
            parser_stack_push(
              parser_emit_cbc_ext_forward_branch(c2, "CBC_EXT_WITH_CREATE_CONTEXT"),
              WithCells([branch |-> BranchHere(c2)])),
            PARSER_STATEMENT_WITH))
      Enter(c1) ==
        WhenOk(c1,
          [c1 EXCEPT !.cdepth = @ + PARSER_WITH_CONTEXT_STACK_ALLOCATION,
                     !.flags = @ \cup {"PARSER_IN_WIDTH"}])
  IN Push(Enter(parser_parse_enclosed_expr(c)))

parser_parse_with_statement_start(c) ==
  LET Push(c2) ==
        InitLastStatement(
          parser_stack_push_uint8(
            parser_stack_push(
              parser_emit_cbc_ext_forward_branch(c2, "CBC_EXT_WITH_CREATE_CONTEXT"),
              WithCells([branch |-> BranchHere(c2)])),
            PARSER_STATEMENT_WITH))
      Enter(c1) ==
        WhenOk(c1,
          [c1 EXCEPT !.cdepth = @ + PARSER_WITH_CONTEXT_STACK_ALLOCATION,
                     !.flags = @ \cup {"PARSER_IN_WIDTH"}])
  IN IF "PARSER_IS_STRICT" \in c.flags
       THEN parser_raise_error(c, "PARSER_ERR_WITH_NOT_ALLOWED")
       ELSE Push(Enter(parser_parse_enclosed_expr(c)))

\* The walk that ends parser_parse_with_statement_end.
RECURSIVE WithWalk(_, _)
WithWalk(c, iterator) ==
  LET type == parser_stack_iterator_read_uint8(c, iterator)
  IN IF ~Ok(c) THEN c
     ELSE IF type = PARSER_STATEMENT_START
       THEN [c EXCEPT !.flags = @ \ {"PARSER_IN_WIDTH"}]
     ELSE IF type = PARSER_STATEMENT_WITH THEN c
     ELSE IF parser_statement_length(type) = 0 THEN [c EXCEPT !.fault = TRUE]
     ELSE WithWalk(c, parser_stack_iterator_skip(iterator,
                                                 parser_statement_length(type)))

\* The end of the with statement that leaves context_stack_depth as it is.
parser_parse_with_statement_end_nodepth(c) ==
  LET with_statement == WithOf(StackTop(parser_stack_pop_uint8(c), SizeofWith))
      Leave(c2) ==
        WhenOk(c2,
          [c2 EXCEPT !.depth = @ - PARSER_WITH_CONTEXT_STACK_ALLOCATION])
      Walk(c4) == WithWalk(c4, parser_stack_iterator_init(c4))
  IN Walk(parser_set_branch_to_current_position(
            parser_emit_cbc(
              Leave(parser_flush_cbc(
                      InitLastStatement(
                        parser_stack_pop(parser_stack_pop_uint8(c), SizeofWith)))),
              "CBC_CONTEXT_END"),
            with_statement.branch))

\* The end of the with statement that clears PARSER_IN_WIDTH without a look
\* at the statements below.
parser_parse_with_statement_end_clear(c) ==
  LET with_statement == WithOf(StackTop(parser_stack_pop_uint8(c), SizeofWith))
      Leave(c2) ==
        WhenOk(c2,
          [c2 EXCEPT !.depth = @ - PARSER_WITH_CONTEXT_STACK_ALLOCATION,
                     !.cdepth = @ - PARSER_WITH_CONTEXT_STACK_ALLOCATION])
      Walk(c4) == WhenOk(c4, [c4 EXCEPT !.flags = @ \ {"PARSER_IN_WIDTH"}])
  IN Walk(parser_set_branch_to_current_position(
            parser_emit_cbc(
              Leave(parser_flush_cbc(
                      InitLastStatement(
                        parser_stack_pop(parser_stack_pop_uint8(c), SizeofWith)))),
              "CBC_CONTEXT_END"),
            with_statement.branch))

parser_parse_with_statement_end(c) ==
  LET with_statement == WithOf(StackTop(parser_stack_pop_uint8(c), SizeofWith))
      Leave(c2) ==
        WhenOk(c2,
          [c2 EXCEPT !.depth = @ - PARSER_WITH_CONTEXT_STACK_ALLOCATION,
                     !.cdepth = @ - PARSER_WITH_CONTEXT_STACK_ALLOCATION])
      Walk(c4) == WithWalk(c4, parser_stack_iterator_init(c4))
  IN Walk(parser_set_branch_to_current_position(
            parser_emit_cbc(
              Leave(parser_flush_cbc(
                      InitLastStatement(
                        parser_stack_pop(parser_stack_pop_uint8(c), SizeofWith)))),
              "CBC_CONTEXT_END"),
            with_statement.branch))

\* The backward branch that closes a loop on the condition just parsed.
\* The branch of a loop that takes no notice of the cached opcode.
LoopBranchOpcode_plain(c) == "CBC_BRANCH_IF_TRUE_BACKWARD"

LoopBranchOpcode(c) ==
  IF c.lastop = "CBC_LOGICAL_NOT" THEN "CBC_BRANCH_IF_FALSE_BACKWARD"
  ELSE IF c.lastop = "CBC_PUSH_TRUE" THEN "CBC_JUMP_BACKWARD"
  ELSE "CBC_BRANCH_IF_TRUE_BACKWARD"

\* The cached opcode is kept whatever the branch.
DropFoldedOpcode_keep(c) == c

DropFoldedOpcode(c) ==
  IF Ok(c) /\ c.lastop \in {"CBC_LOGICAL_NOT", "CBC_PUSH_TRUE"}
    THEN [c EXCEPT !.lastop = PARSER_CBC_UNAVAILABLE]
    ELSE c

parser_parse_do_while_statement_end(c) ==
  LET c1 == parser_stack_pop_uint8(c)
      loop == LoopOf(StackTop(c1, SizeofLoop))
      c2 == parser_stack_pop(c1, SizeofLoop)
      do_while_statement == DoWhileOf(StackTop(c2, SizeofDoWhile))
      Branch(c5) ==
        IF ~Ok(c5) THEN c5
        ELSE IF c5.lastop # "CBC_PUSH_FALSE"
          THEN parser_emit_cbc_backward_branch(
                 DropFoldedOpcode(c5), LoopBranchOpcode(c5),
                 do_while_statement.start_offset)
        ELSE [c5 EXCEPT !.lastop = PARSER_CBC_UNAVAILABLE]
  IN IF c.token.type # "LEXER_KEYW_WHILE"
       THEN parser_raise_error(c, "PARSER_ERR_WHILE_EXPECTED")
       ELSE parser_set_breaks_to_current_position(
              Branch(parser_parse_enclosed_expr(
                       parser_set_continues_to_current_position(
                         InitLastStatement(parser_stack_pop(c2, SizeofDoWhile)),
                         loop.branch_list_p))),
              loop.branch_list_p)

parser_parse_while_statement_start(c) ==
  LET Push(c2, branch, scan) ==
        InitLastStatement(
          parser_stack_push_uint8(
            parser_stack_push(
              parser_stack_push(
                lexer_next_token(scan.c),
                WhileCells([branch |-> branch, condition_range |-> scan.range,
                            start_offset |-> byte_code_size(c2)])),
              LoopCells([branch_list_p |-> << >>])),
            PARSER_STATEMENT_WHILE))
      Scan(c2, branch) ==
        Push(c2, branch, parser_scan_until(c2, "LEXER_RIGHT_PAREN"))
      Jump(c1) ==
        Scan(parser_emit_cbc_forward_branch(c1, "CBC_JUMP_FORWARD"),
             BranchHere(c1))
  IN Jump(ExpectType(lexer_next_token(c), "LEXER_LEFT_PAREN",
                     "PARSER_ERR_LEFT_PAREN_EXPECTED"))

\* The end of a while statement where the saved token is not put back.
parser_parse_while_statement_end_keeptoken(c) ==
  LET c1 == parser_stack_pop_uint8(c)
      loop == LoopOf(StackTop(c1, SizeofLoop))
      c2 == parser_stack_pop(c1, SizeofLoop)
      while_statement == WhileOf(StackTop(c2, SizeofWhile))
      range == parser_save_range(c, c.send)
      current_token == c.token
      Restore(c7) == parser_set_range(c7, range)
      Branch(c6) ==
        parser_emit_cbc_backward_branch(DropFoldedOpcode(c6),
                                        LoopBranchOpcode(c6),
                                        while_statement.start_offset)
  IN Restore(
       parser_set_breaks_to_current_position(
         Branch(
           ExpectType(
             parser_parse_expression(
               lexer_next_token(
                 parser_set_range(
                   parser_set_continues_to_current_position(
                     parser_set_branch_to_current_position(
                       InitLastStatement(parser_stack_pop(c2, SizeofWhile)),
                       while_statement.branch),
                     loop.branch_list_p),
                   while_statement.condition_range)),
               {"PARSE_EXPR"}),
             "LEXER_EOS", "PARSER_ERR_INVALID_EXPRESSION")),
         loop.branch_list_p))

parser_parse_while_statement_end(c) ==
  LET c1 == parser_stack_pop_uint8(c)
      loop == LoopOf(StackTop(c1, SizeofLoop))
      c2 == parser_stack_pop(c1, SizeofLoop)
      while_statement == WhileOf(StackTop(c2, SizeofWhile))
      range == parser_save_range(c, c.send)
      current_token == c.token
      Restore(c7) ==
        WhenOk(c7, [parser_set_range(c7, range) EXCEPT !.token = current_token])
      Branch(c6) ==
        parser_emit_cbc_backward_branch(DropFoldedOpcode(c6),
                                        LoopBranchOpcode(c6),
                                        while_statement.start_offset)
  IN Restore(
       parser_set_breaks_to_current_position(
         Branch(
           ExpectType(
             parser_parse_expression(
               lexer_next_token(
                 parser_set_range(
                   parser_set_continues_to_current_position(
                     parser_set_branch_to_current_position(
                       InitLastStatement(parser_stack_pop(c2, SizeofWhile)),
                       while_statement.branch),
                     loop.branch_list_p),
                   while_statement.condition_range)),
               {"PARSE_EXPR"}),
             "LEXER_EOS", "PARSER_ERR_INVALID_EXPRESSION")),
         loop.branch_list_p))

\* The for-in branch of parser_parse_for_statement_start, from the token
\* after the in keyword on.
ForInStart(c, start_range) ==
  LET \* var identifier, with an initialiser that is never executed
      Initialiser(v1) ==
        IF Ok(v1) /\ v1.token.type = "LEXER_ASSIGN"
          THEN parser_set_branch_to_current_position(
                 parser_parse_expression(
                   lexer_next_token(
                     parser_emit_cbc_forward_branch(v1, "CBC_JUMP_FORWARD")),
                   {"PARSE_EXPR_STATEMENT", "PARSE_EXPR_NO_COMMA"}),
                 BranchHere(v1))
          ELSE v1
      VarTarget(c6) ==
        parser_emit_cbc_literal(
          parser_emit_cbc_ext(
            Initialiser(lexer_next_token(lexer_expect_identifier(c6))),
            "CBC_EXT_FOR_IN_GET_NEXT"),
          "CBC_ASSIGN_IDENT")
      \* any other left-hand side
      Opcode(e1) ==
        CASE e1.lastop = "CBC_PUSH_IDENT" -> "CBC_ASSIGN_IDENT"
          [] e1.lastop = "CBC_PROP_GET" -> "CBC_ASSIGN"
          [] e1.lastop = "CBC_PROP_STRING_GET" -> "CBC_ASSIGN_PROP_STRING"
          [] OTHER -> "CBC_ASSIGN"
      Base(e1) ==
        IF ~Ok(e1) THEN e1
        ELSE IF e1.lastop \in {"CBC_PUSH_IDENT", "CBC_PROP_GET",
                               "CBC_PROP_STRING_GET"}
          THEN [e1 EXCEPT !.lastop = PARSER_CBC_UNAVAILABLE]
        ELSE parser_emit_cbc_ext(e1, "CBC_EXT_PUSH_UNDEFINED_BASE")
      SetOpcode(e3, opcode) == WhenOk(e3, [e3 EXCEPT !.lastop = opcode])
      Target(e1) ==
        SetOpcode(parser_flush_cbc(
                    parser_emit_cbc_ext(Base(e1), "CBC_EXT_FOR_IN_GET_NEXT")),
                  Opcode(e1))
      Left(c6) ==
        IF Ok(c6) /\ c6.token.type = "LEXER_KEYW_VAR"
          THEN VarTarget(c6)
          ELSE Target(parser_parse_expression(c6, {"PARSE_EXPR"}))
      Push(c4, c5) ==
        InitLastStatement(
          parser_stack_push_uint8(
            parser_stack_push(
              parser_stack_push(
                lexer_next_token(
                  parser_set_range(
                    parser_flush_cbc(
                      ExpectType(
                        Left(lexer_next_token(parser_set_range(c5, start_range))),
                        "LEXER_EOS", "PARSER_ERR_IN_EXPECTED")),
                    parser_save_range(c5, c5.send))),
                ForInCells([branch |-> BranchHere(c4),
                            start_offset |-> byte_code_size(c5)])),
              LoopCells([branch_list_p |-> << >>])),
            PARSER_STATEMENT_FOR_IN))
      Create(c4) ==
        Push(c4, parser_emit_cbc_ext_forward_branch(c4,
                                                    "CBC_EXT_FOR_IN_CREATE_CONTEXT"))
      Enter(c3) ==
        WhenOk(c3, [c3 EXCEPT !.cdepth = @ + PARSER_FOR_IN_CONTEXT_STACK_ALLOCATION])
  IN Create(Enter(ExpectType(
                    parser_parse_expression(lexer_next_token(c), {"PARSE_EXPR"}),
                    "LEXER_RIGHT_PAREN", "PARSER_ERR_RIGHT_PAREN_EXPECTED")))

\* The other branch of parser_parse_for_statement_start.
ForStart(c, start_range) ==
  LET Push(c4, c5, condition, expression) ==
        InitLastStatement(
          parser_stack_push_uint8(
            parser_stack_push(
              parser_stack_push(
                lexer_next_token(expression.c),
                ForCells([branch |-> BranchHere(c4),
                          condition_range |-> condition.range,
                          expression_range |-> expression.range,
                          start_offset |-> byte_code_size(c5)])),
              LoopCells([branch_list_p |-> << >>])),
            PARSER_STATEMENT_FOR))
      Update(c4, c5, condition) ==
        Push(c4, c5, condition,
             parser_scan_until(condition.c, "LEXER_RIGHT_PAREN"))
      Jump(c4, c5) == Update(c4, c5, parser_scan_until(c5, "LEXER_SEMICOLON"))
      Condition(c4) ==
        Jump(c4, parser_emit_cbc_forward_branch(c4, "CBC_JUMP_FORWARD"))
      Initial(c3) ==
        IF ~Ok(c3) \/ c3.token.type = "LEXER_SEMICOLON" THEN c3
        ELSE ExpectType(
               IF c3.token.type = "LEXER_KEYW_VAR"
                 THEN parser_parse_var_statement(c3)
                 ELSE parser_parse_expression(c3, {"PARSE_EXPR_STATEMENT"}),
               "LEXER_SEMICOLON", "PARSER_ERR_SEMICOLON_EXPECTED")
  IN Condition(Initial(
       lexer_next_token(
         parser_set_range(c, [start_range EXCEPT !.source_end_p = c.send]))))

parser_parse_for_statement_start(c) ==
  LET Head1(s, start_range) ==
        IF ~Ok(s) THEN s
        ELSE IF s.token.type = "LEXER_KEYW_IN"
          THEN ForInStart(s, start_range)
        ELSE ForStart(s, start_range)
      Scanned1(scan) == Head1(scan.c, scan.range)
  IN Scanned1(parser_scan_until(
                ExpectType(lexer_next_token(c), "LEXER_LEFT_PAREN",
                           "PARSER_ERR_LEFT_PAREN_EXPECTED"),
                "LEXER_KEYW_IN"))

\* The end of a for statement where the entry jump is set before the update
\* expression.
parser_parse_for_statement_end_toupdate(c) ==
  LET c1 == parser_stack_pop_uint8(c)
      loop == LoopOf(StackTop(c1, SizeofLoop))
      c2 == parser_stack_pop(c1, SizeofLoop)
      for_statement == ForOf(StackTop(c2, SizeofFor))
      range == parser_save_range(c, c.send)
      current_token == c.token
      Update(c4) ==
        IF ~Ok(c4) \/ c4.token.type = "LEXER_EOS" THEN c4
        ELSE ExpectType(parser_parse_expression(c4, {"PARSE_EXPR_STATEMENT"}),
                        "LEXER_EOS", "PARSER_ERR_INVALID_EXPRESSION")
      Branch(c7, no_condition) ==
        parser_emit_cbc_backward_branch(
          IF no_condition THEN c7 ELSE DropFoldedOpcode(c7),
          IF no_condition THEN "CBC_JUMP_BACKWARD" ELSE LoopBranchOpcode(c7),
          for_statement.start_offset)
      Condition(c6) ==
        Branch(IF ~Ok(c6) \/ c6.token.type = "LEXER_EOS" THEN c6
               ELSE ExpectType(parser_parse_expression(c6, {"PARSE_EXPR"}),
                               "LEXER_EOS", "PARSER_ERR_INVALID_EXPRESSION"),
               c6.token.type = "LEXER_EOS")
      Restore(c8) ==
        WhenOk(c8, [parser_set_range(c8, range) EXCEPT !.token = current_token])
  IN Restore(
       parser_set_breaks_to_current_position(
         Condition(
           lexer_next_token(
             parser_set_range(
               Update(
                 parser_set_branch_to_current_position(
                   parser_set_continues_to_current_position(
                     lexer_next_token(
                       parser_set_range(
                         InitLastStatement(parser_stack_pop(c2, SizeofFor)),
                         for_statement.expression_range)),
                     loop.branch_list_p),
                   for_statement.branch)),
               for_statement.condition_range))),
         loop.branch_list_p))

parser_parse_for_statement_end(c) ==
  LET c1 == parser_stack_pop_uint8(c)
      loop == LoopOf(StackTop(c1, SizeofLoop))
      c2 == parser_stack_pop(c1, SizeofLoop)
      for_statement == ForOf(StackTop(c2, SizeofFor))
      range == parser_save_range(c, c.send)
      current_token == c.token
      Update(c4) ==
        IF ~Ok(c4) \/ c4.token.type = "LEXER_EOS" THEN c4
        ELSE ExpectType(parser_parse_expression(c4, {"PARSE_EXPR_STATEMENT"}),
                        "LEXER_EOS", "PARSER_ERR_INVALID_EXPRESSION")
      Branch(c7, no_condition) ==
        parser_emit_cbc_backward_branch(
          IF no_condition THEN c7 ELSE DropFoldedOpcode(c7),
          IF no_condition THEN "CBC_JUMP_BACKWARD" ELSE LoopBranchOpcode(c7),
          for_statement.start_offset)
      Condition(c6) ==
        Branch(IF ~Ok(c6) \/ c6.token.type = "LEXER_EOS" THEN c6
               ELSE ExpectType(parser_parse_expression(c6, {"PARSE_EXPR"}),
                               "LEXER_EOS", "PARSER_ERR_INVALID_EXPRESSION"),
               c6.token.type = "LEXER_EOS")
      Restore(c8) ==
        WhenOk(c8, [parser_set_range(c8, range) EXCEPT !.token = current_token])
  IN Restore(
       parser_set_breaks_to_current_position(
         Condition(
           lexer_next_token(
             parser_set_range(
               parser_set_branch_to_current_position(
                 Update(
                   parser_set_continues_to_current_position(
                     lexer_next_token(
                       parser_set_range(
                         InitLastStatement(parser_stack_pop(c2, SizeofFor)),
                         for_statement.expression_range)),
                     loop.branch_list_p)),
                 for_statement.branch),
               for_statement.condition_range))),
         loop.branch_list_p))

\* The loop of parser_parse_switch_statement_start over the body of the
\* switch; it hands back the context and its locals.
\* The pre-pass without the test of default_case_was_found: a second default
\* label is taken like the first.
RECURSIVE SwitchPrePass_manydefaults(_, _, _, _, _)
SwitchPrePass_manydefaults(c, iterator, switch_statement, switch_case_was_found, default_case_was_found) ==
  LET result(x, sw) == [c |-> x, switch_statement |-> sw,
                        switch_case_was_found |-> switch_case_was_found,
                        default_case_was_found |-> default_case_was_found]
      \* the branch of the case before this one
      Compare(s) ==
        IF s.token.type # "LEXER_KEYW_CASE"
          THEN parser_emit_cbc(s, "CBC_STRICT_EQUAL") ELSE s
      Branch(s, b1) ==
        IF switch_case_was_found
          THEN parser_stack_iterator_write(
                 parser_emit_cbc_forward_branch_item(b1,
                   IF s.token.type # "LEXER_KEYW_CASE"
                     THEN "CBC_BRANCH_IF_TRUE_FORWARD"
                     ELSE "CBC_BRANCH_IF_STRICT_EQUAL"),
                 iterator,
                 SwitchCells([switch_statement EXCEPT
                                !.branch_list_p = @ \o NewItem(b1, << >>)]))
          ELSE s
      Cases(s) ==
        IF switch_case_was_found
          THEN [switch_statement EXCEPT
                  !.branch_list_p = @ \o NewItem(Compare(s), << >>)]
          ELSE switch_statement
      Step(s, b3) ==
        IF ~Ok(s) THEN result(s, switch_statement)
        ELSE IF s.token.type = "LEXER_KEYW_DEFAULT"
          THEN SwitchPrePass_manydefaults(
                 lexer_next_token(
                   ExpectType(lexer_next_token(s), "LEXER_COLON",
                              "PARSER_ERR_COLON_EXPECTED")),
                 iterator, switch_statement, switch_case_was_found, TRUE)
        ELSE IF s.token.type = "LEXER_RIGHT_BRACE" THEN result(b3, Cases(s))
        ELSE IF s.token.type = "LEXER_KEYW_CASE"
          THEN SwitchPrePass_manydefaults(
                 lexer_next_token(
                   ExpectType(parser_parse_expression(lexer_next_token(b3),
                                                      {"PARSE_EXPR"}),
                              "LEXER_COLON", "PARSER_ERR_COLON_EXPECTED")),
                 iterator, Cases(s), TRUE, default_case_was_found)
        ELSE SwitchPrePass_manydefaults(lexer_next_token(s), iterator, switch_statement,
                           switch_case_was_found, default_case_was_found)
      Found(s) == Step(s, Branch(s, Compare(s)))
      Scanned1(scan) == Found(scan.c)
  IN Scanned1(parser_scan_until(c, "LEXER_KEYW_CASE"))

\* The pre-pass with the two branch opcodes taken for one another.
RECURSIVE SwitchPrePass_swapped(_, _, _, _, _)
SwitchPrePass_swapped(c, iterator, switch_statement, switch_case_was_found, default_case_was_found) ==
  LET result(x, sw) == [c |-> x, switch_statement |-> sw,
                        switch_case_was_found |-> switch_case_was_found,
                        default_case_was_found |-> default_case_was_found]
      \* the branch of the case before this one
      Compare(s) ==
        IF s.token.type # "LEXER_KEYW_CASE"
          THEN parser_emit_cbc(s, "CBC_STRICT_EQUAL") ELSE s
      Branch(s, b1) ==
        IF switch_case_was_found
          THEN parser_stack_iterator_write(
                 parser_emit_cbc_forward_branch_item(b1,
                   IF s.token.type # "LEXER_KEYW_CASE"
                     THEN "CBC_BRANCH_IF_STRICT_EQUAL"
                     ELSE "CBC_BRANCH_IF_TRUE_FORWARD"),
                 iterator,
                 SwitchCells([switch_statement EXCEPT
                                !.branch_list_p = @ \o NewItem(b1, << >>)]))
          ELSE s
      Cases(s) ==
        IF switch_case_was_found
          THEN [switch_statement EXCEPT
                  !.branch_list_p = @ \o NewItem(Compare(s), << >>)]
          ELSE switch_statement
      Step(s, b3) ==
        IF ~Ok(s) THEN result(s, switch_statement)
        ELSE IF s.token.type = "LEXER_KEYW_DEFAULT"
          THEN IF default_case_was_found
                 THEN result(parser_raise_error(s,
                               "PARSER_ERR_MULTIPLE_DEFAULTS_NOT_ALLOWED"),
                             switch_statement)
                 ELSE SwitchPrePass_swapped(
                        lexer_next_token(
                          ExpectType(lexer_next_token(s), "LEXER_COLON",
                                     "PARSER_ERR_COLON_EXPECTED")),
                        iterator, switch_statement, switch_case_was_found, TRUE)
        ELSE IF s.token.type = "LEXER_RIGHT_BRACE" THEN result(b3, Cases(s))
        ELSE IF s.token.type = "LEXER_KEYW_CASE"
          THEN SwitchPrePass_swapped(
                 lexer_next_token(
                   ExpectType(parser_parse_expression(lexer_next_token(b3),
                                                      {"PARSE_EXPR"}),
                              "LEXER_COLON", "PARSER_ERR_COLON_EXPECTED")),
                 iterator, Cases(s), TRUE, default_case_was_found)
        ELSE SwitchPrePass_swapped(lexer_next_token(s), iterator, switch_statement,
                           switch_case_was_found, default_case_was_found)
      Found(s) == Step(s, Branch(s, Compare(s)))
      Scanned1(scan) == Found(scan.c)
  IN Scanned1(parser_scan_until(c, "LEXER_KEYW_CASE"))

RECURSIVE SwitchPrePass(_, _, _, _, _)
SwitchPrePass(c, iterator, switch_statement, switch_case_was_found, default_case_was_found) ==
  LET result(x, sw) == [c |-> x, switch_statement |-> sw,
                        switch_case_was_found |-> switch_case_was_found,
                        default_case_was_found |-> default_case_was_found]
      \* the branch of the case before this one
      Compare(s) ==
        IF s.token.type # "LEXER_KEYW_CASE"
          THEN parser_emit_cbc(s, "CBC_STRICT_EQUAL") ELSE s
      Branch(s, b1) ==
        IF switch_case_was_found
          THEN parser_stack_iterator_write(
                 parser_emit_cbc_forward_branch_item(b1,
                   IF s.token.type # "LEXER_KEYW_CASE"
                     THEN "CBC_BRANCH_IF_TRUE_FORWARD"
                     ELSE "CBC_BRANCH_IF_STRICT_EQUAL"),
                 iterator,
                 SwitchCells([switch_statement EXCEPT
                                !.branch_list_p = @ \o NewItem(b1, << >>)]))
          ELSE s
      Cases(s) ==
        IF switch_case_was_found
          THEN [switch_statement EXCEPT
                  !.branch_list_p = @ \o NewItem(Compare(s), << >>)]
          ELSE switch_statement
      Step(s, b3) ==
        IF ~Ok(s) THEN result(s, switch_statement)
        ELSE IF s.token.type = "LEXER_KEYW_DEFAULT"
          THEN IF default_case_was_found
                 THEN result(parser_raise_error(s,
                               "PARSER_ERR_MULTIPLE_DEFAULTS_NOT_ALLOWED"),
                             switch_statement)
                 ELSE SwitchPrePass(
                        lexer_next_token(
                          ExpectType(lexer_next_token(s), "LEXER_COLON",
                                     "PARSER_ERR_COLON_EXPECTED")),
                        iterator, switch_statement, switch_case_was_found, TRUE)
        ELSE IF s.token.type = "LEXER_RIGHT_BRACE" THEN result(b3, Cases(s))
        ELSE IF s.token.type = "LEXER_KEYW_CASE"
          THEN SwitchPrePass(
                 lexer_next_token(
                   ExpectType(parser_parse_expression(lexer_next_token(b3),
                                                      {"PARSE_EXPR"}),
                              "LEXER_COLON", "PARSER_ERR_COLON_EXPECTED")),
                 iterator, Cases(s), TRUE, default_case_was_found)
        ELSE SwitchPrePass(lexer_next_token(s), iterator, switch_statement,
                           switch_case_was_found, default_case_was_found)
      Found(s) == Step(s, Branch(s, Compare(s)))
      Scanned1(scan) == Found(scan.c)
  IN Scanned1(parser_scan_until(c, "LEXER_KEYW_CASE"))

parser_parse_switch_statement_start(c) ==
  LET Default(pass, iterator, c5) ==
        parser_stack_iterator_write(
          parser_emit_cbc_forward_branch(c5, "CBC_JUMP_FORWARD"), iterator,
          SwitchCells([pass.switch_statement EXCEPT
                         !.default_branch = BranchHere(c5)]))
      Tag(pass, c6) ==
        IF pass.default_case_was_found THEN c6
        ELSE parser_stack_change_last_uint8(c6, PARSER_STATEMENT_SWITCH_NO_DEFAULT)
      Cases(pass, iterator) ==
        Tag(pass,
            Default(pass, iterator,
                    IF pass.switch_case_was_found THEN pass.c
                    ELSE parser_emit_cbc(pass.c, "CBC_POP")))
      Frame(c3) ==
        Cases(SwitchPrePass(
                InitLastStatement(
                  parser_stack_push_uint8(
                    parser_stack_push(c3, LoopCells([branch_list_p |-> << >>])),
                    PARSER_STATEMENT_SWITCH)),
                parser_stack_iterator_init(c3),
                [default_branch |-> NullBranch, branch_list_p |-> << >>],
                FALSE, FALSE),
              parser_stack_iterator_init(c3))
      Body(c2, switch_body_start) ==
        IF ~Ok(c2) THEN c2
        ELSE IF c2.token.type = "LEXER_RIGHT_BRACE"
          THEN InitLastStatement(
                 parser_stack_push_uint8(
                   parser_flush_cbc(parser_emit_cbc(c2, "CBC_POP")),
                   PARSER_STATEMENT_BLOCK))
        ELSE IF c2.token.type \notin {"LEXER_KEYW_CASE", "LEXER_KEYW_DEFAULT"}
          THEN parser_raise_error(c2, "PARSER_ERR_INVALID_SWITCH")
        ELSE lexer_next_token(
               parser_set_range(
                 Frame(parser_stack_push(
                         c2, SwitchCells([default_branch |-> NullBranch,
                                          branch_list_p |-> << >>]))),
                 switch_body_start))
      Open(c1) == Body(lexer_next_token(c1), parser_save_range(c1, c1.send))
  IN Open(ExpectType(parser_parse_enclosed_expr(c), "LEXER_LEFT_BRACE",
                     "PARSER_ERR_LEFT_BRACE_EXPECTED"))

\* The end of the protected region of a try statement.
\* The end of the protected region that leaves the depths as they are.
TryContextEnd_nodepth(c) == parser_emit_cbc(parser_flush_cbc(c), "CBC_CONTEXT_END")

TryContextEnd(c) ==
  LET Leave(f) ==
        WhenOk(f, [f EXCEPT !.depth = @ - PARSER_TRY_CONTEXT_STACK_ALLOCATION,
                            !.cdepth = @ - PARSER_TRY_CONTEXT_STACK_ALLOCATION])
  IN parser_emit_cbc(Leave(parser_flush_cbc(c)), "CBC_CONTEXT_END")

\* The end of a catch block that writes CBC_CONTEXT_END before a finally
\* block as well.
parser_parse_try_statement_end_twice(c) ==
  LET iterator == parser_stack_iterator_skip(parser_stack_iterator_init(c), 1)
      try_statement == TryOf(parser_stack_iterator_read(c, iterator, SizeofTry))
      \* the block that ends is the catch or the try block
      Block(p1, type) ==
        IF try_statement.type = "parser_catch_block"
          THEN IF type # "LEXER_KEYW_FINALLY"
                 THEN parser_flush_cbc(TryContextEnd(p1))
                 ELSE parser_emit_cbc(p1, "CBC_CONTEXT_END")
        ELSE IF type \notin {"LEXER_KEYW_CATCH", "LEXER_KEYW_FINALLY"}
          THEN parser_raise_error(p1, "PARSER_ERR_CATCH_FINALLY_EXPECTED")
        ELSE p1
      Close(c1) ==
        IF try_statement.type = "parser_finally_block"
          THEN parser_set_branch_to_current_position(TryContextEnd(c1),
                                                     try_statement.branch)
          ELSE Block(parser_set_branch_to_current_position(c1,
                                                           try_statement.branch),
                     c1.token.type)
      \* catch (identifier) {
      Catch(k3) ==
        parser_stack_iterator_write(
          lexer_next_token(
            parser_flush_cbc(
              parser_emit_cbc_literal(
                parser_emit_cbc_ext_forward_branch(k3, "CBC_EXT_CATCH"),
                "CBC_ASSIGN_IDENT"))),
          iterator,
          TryCells([type |-> "parser_catch_block", branch |-> BranchHere(k3)]))
      \* finally {
      Finally(y1) ==
        parser_stack_iterator_write(
          lexer_next_token(parser_emit_cbc_ext_forward_branch(y1, "CBC_EXT_FINALLY")),
          iterator,
          TryCells([type |-> "parser_finally_block", branch |-> BranchHere(y1)]))
      Following(type, c2) ==
        IF \/ try_statement.type = "parser_finally_block"
           \/ /\ try_statement.type = "parser_catch_block"
              /\ type # "LEXER_KEYW_FINALLY"
          THEN InitLastStatement(parser_stack_pop(c2, SizeofTry + 1))
        ELSE IF type = "LEXER_KEYW_CATCH"
          THEN Catch(
                 ExpectType(
                   lexer_next_token(
                     ExpectType(
                       lexer_next_token(
                         lexer_expect_identifier(
                           ExpectType(lexer_next_token(c2), "LEXER_LEFT_PAREN",
                                      "PARSER_ERR_LEFT_PAREN_EXPECTED"))),
                       "LEXER_RIGHT_PAREN", "PARSER_ERR_RIGHT_PAREN_EXPECTED")),
                   "LEXER_LEFT_BRACE", "PARSER_ERR_LEFT_BRACE_EXPECTED"))
        ELSE Finally(ExpectType(lexer_next_token(c2), "LEXER_LEFT_BRACE",
                                "PARSER_ERR_LEFT_BRACE_EXPECTED"))
      After(c1) == IF ~Ok(c1) THEN c1 ELSE Following(c1.token.type, Close(c1))
  IN After(lexer_next_token(c))

\* The end of a catch block that takes a catch that follows as one more
\* handler of the same try.
parser_parse_try_statement_end_catchagain(c) ==
  LET iterator == parser_stack_iterator_skip(parser_stack_iterator_init(c), 1)
      try_statement == TryOf(parser_stack_iterator_read(c, iterator, SizeofTry))
      \* the block that ends is the catch or the try block
      Block(p1, type) ==
        IF try_statement.type = "parser_catch_block"
          THEN IF type # "LEXER_KEYW_FINALLY"
                 THEN parser_flush_cbc(TryContextEnd(p1)) ELSE p1
        ELSE IF type \notin {"LEXER_KEYW_CATCH", "LEXER_KEYW_FINALLY"}
          THEN parser_raise_error(p1, "PARSER_ERR_CATCH_FINALLY_EXPECTED")
        ELSE p1
      Close(c1) ==
        IF try_statement.type = "parser_finally_block"
          THEN parser_set_branch_to_current_position(TryContextEnd(c1),
                                                     try_statement.branch)
          ELSE Block(parser_set_branch_to_current_position(c1,
                                                           try_statement.branch),
                     c1.token.type)
      \* catch (identifier) {
      Catch(k3) ==
        parser_stack_iterator_write(
          lexer_next_token(
            parser_flush_cbc(
              parser_emit_cbc_literal(
                parser_emit_cbc_ext_forward_branch(k3, "CBC_EXT_CATCH"),
                "CBC_ASSIGN_IDENT"))),
          iterator,
          TryCells([type |-> "parser_catch_block", branch |-> BranchHere(k3)]))
      \* finally {
      Finally(y1) ==
        parser_stack_iterator_write(
          lexer_next_token(parser_emit_cbc_ext_forward_branch(y1, "CBC_EXT_FINALLY")),
          iterator,
          TryCells([type |-> "parser_finally_block", branch |-> BranchHere(y1)]))
      Following(type, c2) ==
        IF \/ try_statement.type = "parser_finally_block"
           \/ /\ try_statement.type = "parser_catch_block"
              /\ type \notin {"LEXER_KEYW_FINALLY", "LEXER_KEYW_CATCH"}
          THEN InitLastStatement(parser_stack_pop(c2, SizeofTry + 1))
        ELSE IF type = "LEXER_KEYW_CATCH"
          THEN Catch(
                 ExpectType(
                   lexer_next_token(
                     ExpectType(
                       lexer_next_token(
                         lexer_expect_identifier(
                           ExpectType(lexer_next_token(c2), "LEXER_LEFT_PAREN",
                                      "PARSER_ERR_LEFT_PAREN_EXPECTED"))),
                       "LEXER_RIGHT_PAREN", "PARSER_ERR_RIGHT_PAREN_EXPECTED")),
                   "LEXER_LEFT_BRACE", "PARSER_ERR_LEFT_BRACE_EXPECTED"))
        ELSE Finally(ExpectType(lexer_next_token(c2), "LEXER_LEFT_BRACE",
                                "PARSER_ERR_LEFT_BRACE_EXPECTED"))
      After(c1) == IF ~Ok(c1) THEN c1 ELSE Following(c1.token.type, Close(c1))
  IN After(lexer_next_token(c))

parser_parse_try_statement_end(c) ==
  LET iterator == parser_stack_iterator_skip(parser_stack_iterator_init(c), 1)
      try_statement == TryOf(parser_stack_iterator_read(c, iterator, SizeofTry))
      \* the block that ends is the catch or the try block
      Block(p1, type) ==
        IF try_statement.type = "parser_catch_block"
          THEN IF type # "LEXER_KEYW_FINALLY"
                 THEN parser_flush_cbc(TryContextEnd(p1)) ELSE p1
        ELSE IF type \notin {"LEXER_KEYW_CATCH", "LEXER_KEYW_FINALLY"}
          THEN parser_raise_error(p1, "PARSER_ERR_CATCH_FINALLY_EXPECTED")
        ELSE p1
      Close(c1) ==
        IF try_statement.type = "parser_finally_block"
          THEN parser_set_branch_to_current_position(TryContextEnd(c1),
                                                     try_statement.branch)
          ELSE Block(parser_set_branch_to_current_position(c1,
                                                           try_statement.branch),
                     c1.token.type)
      \* catch (identifier) {
      Catch(k3) ==
        parser_stack_iterator_write(
          lexer_next_token(
            parser_flush_cbc(
              parser_emit_cbc_literal(
                parser_emit_cbc_ext_forward_branch(k3, "CBC_EXT_CATCH"),
                "CBC_ASSIGN_IDENT"))),
          iterator,
          TryCells([type |-> "parser_catch_block", branch |-> BranchHere(k3)]))
      \* finally {
      Finally(y1) ==
        parser_stack_iterator_write(
          lexer_next_token(parser_emit_cbc_ext_forward_branch(y1, "CBC_EXT_FINALLY")),
          iterator,
          TryCells([type |-> "parser_finally_block", branch |-> BranchHere(y1)]))
      Following(type, c2) ==
        IF \/ try_statement.type = "parser_finally_block"
           \/ /\ try_statement.type = "parser_catch_block"
              /\ type # "LEXER_KEYW_FINALLY"
          THEN InitLastStatement(parser_stack_pop(c2, SizeofTry + 1))
        ELSE IF type = "LEXER_KEYW_CATCH"
          THEN Catch(
                 ExpectType(
                   lexer_next_token(
                     ExpectType(
                       lexer_next_token(
                         lexer_expect_identifier(
                           ExpectType(lexer_next_token(c2), "LEXER_LEFT_PAREN",
                                      "PARSER_ERR_LEFT_PAREN_EXPECTED"))),
                       "LEXER_RIGHT_PAREN", "PARSER_ERR_RIGHT_PAREN_EXPECTED")),
                   "LEXER_LEFT_BRACE", "PARSER_ERR_LEFT_BRACE_EXPECTED"))
        ELSE Finally(ExpectType(lexer_next_token(c2), "LEXER_LEFT_BRACE",
                                "PARSER_ERR_LEFT_BRACE_EXPECTED"))
      After(c1) == IF ~Ok(c1) THEN c1 ELSE Following(c1.token.type, Close(c1))
  IN After(lexer_next_token(c))

parser_parse_default_statement(c) ==
  LET Patch(c1) ==
        parser_set_branch_to_current_position(
          c1,
          SwitchOf(parser_stack_iterator_read(
                     c1,
                     parser_stack_iterator_skip(parser_stack_iterator_init(c1),
                                                1 + SizeofLoop),
                     SizeofSwitch)).default_branch)
  IN IF c.top \notin {PARSER_STATEMENT_SWITCH, PARSER_STATEMENT_SWITCH_NO_DEFAULT}
       THEN parser_raise_error(c, "PARSER_ERR_DEFAULT_NOT_IN_SWITCH")
       ELSE Patch(lexer_next_token(lexer_next_token(c)))

\* The case label that patches the branch of its node and keeps the node.
parser_parse_case_statement_nofree(c) ==
  LET Patch(c1, iterator, switch_statement) ==
        IF ~Ok(c1) THEN c1
        ELSE IF switch_statement.branch_list_p = << >>
          THEN [c1 EXCEPT !.fault = TRUE]
        ELSE parser_set_branch_to_current_position(
               parser_stack_iterator_write(c1, iterator,
                 SwitchCells([switch_statement EXCEPT
                                !.branch_list_p = Tail(@)])),
               Head(switch_statement.branch_list_p))
      Read(c1, iterator) ==
        Patch(c1, iterator,
              SwitchOf(parser_stack_iterator_read(c1, iterator, SizeofSwitch)))
      Colon(c1) ==
        Read(c1, parser_stack_iterator_skip(parser_stack_iterator_init(c1),
                                            1 + SizeofLoop))
  IN IF c.top \notin {PARSER_STATEMENT_SWITCH, PARSER_STATEMENT_SWITCH_NO_DEFAULT}
       THEN parser_raise_error(c, "PARSER_ERR_CASE_NOT_IN_SWITCH")
       ELSE Colon(lexer_next_token(parser_scan_until(c, "LEXER_COLON").c))

\* The case label that takes the node at the end of the list of the switch.
parser_parse_case_statement_last(c) ==
  LET Patch(c1, iterator, switch_statement) ==
        IF ~Ok(c1) THEN c1
        ELSE IF switch_statement.branch_list_p = << >>
          THEN [c1 EXCEPT !.fault = TRUE]
        ELSE parser_free(
               parser_set_branch_to_current_position(
                 parser_stack_iterator_write(c1, iterator,
                   SwitchCells([switch_statement EXCEPT
                                  !.branch_list_p = SubSeq(@, 1, Len(@) - 1)])),
                 switch_statement.branch_list_p[Len(switch_statement.branch_list_p)]),
               switch_statement.branch_list_p[Len(switch_statement.branch_list_p)])
      Read(c1, iterator) ==
        Patch(c1, iterator,
              SwitchOf(parser_stack_iterator_read(c1, iterator, SizeofSwitch)))
      Colon(c1) ==
        Read(c1, parser_stack_iterator_skip(parser_stack_iterator_init(c1),
                                            1 + SizeofLoop))
  IN IF c.top \notin {PARSER_STATEMENT_SWITCH, PARSER_STATEMENT_SWITCH_NO_DEFAULT}
       THEN parser_raise_error(c, "PARSER_ERR_CASE_NOT_IN_SWITCH")
       ELSE Colon(lexer_next_token(parser_scan_until(c, "LEXER_COLON").c))

parser_parse_case_statement(c) ==
  LET Patch(c1, iterator, switch_statement) ==
        IF ~Ok(c1) THEN c1
        ELSE IF switch_statement.branch_list_p = << >>
          THEN [c1 EXCEPT !.fault = TRUE]
        ELSE parser_free(
               parser_set_branch_to_current_position(
                 parser_stack_iterator_write(c1, iterator,
                   SwitchCells([switch_statement EXCEPT
                                  !.branch_list_p = Tail(@)])),
                 Head(switch_statement.branch_list_p)),
               Head(switch_statement.branch_list_p))
      Read(c1, iterator) ==
        Patch(c1, iterator,
              SwitchOf(parser_stack_iterator_read(c1, iterator, SizeofSwitch)))
      Colon(c1) ==
        Read(c1, parser_stack_iterator_skip(parser_stack_iterator_init(c1),
                                            1 + SizeofLoop))
  IN IF c.top \notin {PARSER_STATEMENT_SWITCH, PARSER_STATEMENT_SWITCH_NO_DEFAULT}
       THEN parser_raise_error(c, "PARSER_ERR_CASE_NOT_IN_SWITCH")
       ELSE Colon(lexer_next_token(parser_scan_until(c, "LEXER_COLON").c))

\* The target of a jump is the frame at the iterator: the new node heads
\* the list of its loop structure.
AddBranchItem(c, iterator, opcode, cont) ==
  LET loop == LoopOf(parser_stack_iterator_read(c, iterator, SizeofLoop))
      item == NewItem(c, loop.branch_list_p)
  IN parser_stack_iterator_write(
       parser_emit_cbc_forward_branch_item(c, opcode), iterator,
       LoopCells([branch_list_p |-> IF cont THEN MarkContinue(item) ELSE item]))

\* The opcode left as it is by the frames that hold a context.
ExitsContext_never(type, opcode) == opcode

ExitsContext(type, opcode) ==
  IF type \in {PARSER_STATEMENT_FOR_IN, PARSER_STATEMENT_WITH,
               PARSER_STATEMENT_TRY}
    THEN "CBC_JUMP_FORWARD_EXIT_CONTEXT" ELSE opcode

\* break identifier: the label with the same name is searched.
RECURSIVE BreakLabelWalk(_, _, _)
BreakLabelWalk(c, iterator, opcode) ==
  LET type == parser_stack_iterator_read_uint8(c, iterator)
      op == ExitsContext(type, opcode)
      at == parser_stack_iterator_skip(iterator, 1)
      label_statement == LabelOf(parser_stack_iterator_read(c, at, SizeofLabel))
  IN IF type = PARSER_STATEMENT_START
       THEN parser_raise_error(c, "PARSER_ERR_INVALID_BREAK_LABEL")
     ELSE IF type = PARSER_STATEMENT_LABEL
       THEN IF lexer_same_identifiers(c.token.lit_location,
                                      label_statement.label_ident)
              THEN lexer_next_token(
                     parser_stack_iterator_write(
                       parser_emit_cbc_forward_branch_item(c, op), at,
                       LabelCells([label_statement EXCEPT !.break_list_p =
                                     NewItem(c, label_statement.break_list_p)])))
              ELSE BreakLabelWalk(c, parser_stack_iterator_skip(at, SizeofLabel),
                                  op)
     ELSE IF parser_statement_length(type) = 0 THEN [c EXCEPT !.fault = TRUE]
     ELSE BreakLabelWalk(c, parser_stack_iterator_skip(
                              iterator, parser_statement_length(type)), op)

\* break: the first switch or loop statement is searched.
RECURSIVE BreakWalk(_, _, _)
BreakWalk(c, iterator, opcode) ==
  LET type == parser_stack_iterator_read_uint8(c, iterator)
      op == ExitsContext(type, opcode)
  IN IF type = PARSER_STATEMENT_START
       THEN parser_raise_error(c, "PARSER_ERR_INVALID_BREAK")
     ELSE IF type \in {PARSER_STATEMENT_SWITCH, PARSER_STATEMENT_SWITCH_NO_DEFAULT,
                       PARSER_STATEMENT_DO_WHILE, PARSER_STATEMENT_WHILE,
                       PARSER_STATEMENT_FOR, PARSER_STATEMENT_FOR_IN}
       THEN AddBranchItem(c, parser_stack_iterator_skip(iterator, 1), op, FALSE)
     ELSE IF parser_statement_length(type) = 0 THEN [c EXCEPT !.fault = TRUE]
     ELSE BreakWalk(c, parser_stack_iterator_skip(
                         iterator, parser_statement_length(type)), op)

parser_parse_break_statement(c) ==
  LET Walk(c1) ==
        IF ~Ok(c1) THEN c1
        ELSE IF ~c1.token.was_newline /\ IsIdent(c1.token)
          THEN BreakLabelWalk(c1, parser_stack_iterator_init(c1),
                              "CBC_JUMP_FORWARD")
        ELSE BreakWalk(c1, parser_stack_iterator_init(c1), "CBC_JUMP_FORWARD")
  IN Walk(lexer_next_token(c))

\* The loop statements with the do-while statement left out.
PARSER_IS_LOOP_nodowhile(type) ==
  type \in {PARSER_STATEMENT_WHILE, PARSER_STATEMENT_FOR,
            PARSER_STATEMENT_FOR_IN}

PARSER_IS_LOOP(type) ==
  type \in {PARSER_STATEMENT_DO_WHILE, PARSER_STATEMENT_WHILE,
            PARSER_STATEMENT_FOR, PARSER_STATEMENT_FOR_IN}

\* continue identifier: loop_iterator is 0 for the null iterator.
\* The search for the label of a loop that forgets the for-in loops it has
\* passed.
RECURSIVE ContinueLabelWalk_unseen(_, _, _, _, _)
ContinueLabelWalk_unseen(c, iterator, loop_iterator, for_in_was_seen, opcode) ==
  LET type == parser_stack_iterator_read_uint8(c, iterator)
      at == parser_stack_iterator_skip(iterator, 1)
      label_statement == LabelOf(parser_stack_iterator_read(c, at, SizeofLabel))
      exits == type \in {PARSER_STATEMENT_WITH, PARSER_STATEMENT_TRY}
      op == IF exits THEN "CBC_JUMP_FORWARD_EXIT_CONTEXT" ELSE opcode
  IN IF type = PARSER_STATEMENT_START
       THEN parser_raise_error(c, "PARSER_ERR_INVALID_CONTINUE_LABEL")
     ELSE IF loop_iterator # 0 /\ type = PARSER_STATEMENT_LABEL
       THEN IF lexer_same_identifiers(c.token.lit_location,
                                      label_statement.label_ident)
              THEN lexer_next_token(
                     AddBranchItem(c, parser_stack_iterator_skip(loop_iterator, 1),
                                   opcode, TRUE))
              ELSE ContinueLabelWalk_unseen(c, parser_stack_iterator_skip(at, SizeofLabel),
                                     loop_iterator, for_in_was_seen, opcode)
     ELSE IF parser_statement_length(type) = 0 THEN [c EXCEPT !.fault = TRUE]
     ELSE ContinueLabelWalk_unseen(
            c, parser_stack_iterator_skip(iterator, parser_statement_length(type)),
            IF PARSER_IS_LOOP(type) THEN iterator ELSE 0,
            for_in_was_seen \/ (~exits /\ type = PARSER_STATEMENT_FOR_IN), op)

RECURSIVE ContinueLabelWalk(_, _, _, _, _)
ContinueLabelWalk(c, iterator, loop_iterator, for_in_was_seen, opcode) ==
  LET type == parser_stack_iterator_read_uint8(c, iterator)
      at == parser_stack_iterator_skip(iterator, 1)
      label_statement == LabelOf(parser_stack_iterator_read(c, at, SizeofLabel))
      exits == type \in {PARSER_STATEMENT_WITH, PARSER_STATEMENT_TRY}
                 \/ for_in_was_seen
      op == IF exits THEN "CBC_JUMP_FORWARD_EXIT_CONTEXT" ELSE opcode
  IN IF type = PARSER_STATEMENT_START
       THEN parser_raise_error(c, "PARSER_ERR_INVALID_CONTINUE_LABEL")
     ELSE IF loop_iterator # 0 /\ type = PARSER_STATEMENT_LABEL
       THEN IF lexer_same_identifiers(c.token.lit_location,
                                      label_statement.label_ident)
              THEN lexer_next_token(
                     AddBranchItem(c, parser_stack_iterator_skip(loop_iterator, 1),
                                   opcode, TRUE))
              ELSE ContinueLabelWalk(c, parser_stack_iterator_skip(at, SizeofLabel),
                                     loop_iterator, for_in_was_seen, opcode)
     ELSE IF parser_statement_length(type) = 0 THEN [c EXCEPT !.fault = TRUE]
     ELSE ContinueLabelWalk(
            c, parser_stack_iterator_skip(iterator, parser_statement_length(type)),
            IF PARSER_IS_LOOP(type) THEN iterator ELSE 0,
            for_in_was_seen \/ (~exits /\ type = PARSER_STATEMENT_FOR_IN), op)

\* continue that takes a switch statement for a loop.
RECURSIVE ContinueWalk_atswitch(_, _, _)
ContinueWalk_atswitch(c, iterator, opcode) ==
  LET type == parser_stack_iterator_read_uint8(c, iterator)
  IN IF type = PARSER_STATEMENT_START
       THEN parser_raise_error(c, "PARSER_ERR_INVALID_CONTINUE")
     ELSE IF \/ PARSER_IS_LOOP(type)
             \/ type \in {PARSER_STATEMENT_SWITCH,
                          PARSER_STATEMENT_SWITCH_NO_DEFAULT}
       THEN AddBranchItem(c, parser_stack_iterator_skip(iterator, 1), opcode, TRUE)
     ELSE IF parser_statement_length(type) = 0 THEN [c EXCEPT !.fault = TRUE]
     ELSE ContinueWalk_atswitch(
            c, parser_stack_iterator_skip(iterator, parser_statement_length(type)),
            IF type \in {PARSER_STATEMENT_WITH, PARSER_STATEMENT_TRY}
              THEN "CBC_JUMP_FORWARD_EXIT_CONTEXT" ELSE opcode)

\* continue: the first loop statement is searched.
RECURSIVE ContinueWalk(_, _, _)
ContinueWalk(c, iterator, opcode) ==
  LET type == parser_stack_iterator_read_uint8(c, iterator)
  IN IF type = PARSER_STATEMENT_START
       THEN parser_raise_error(c, "PARSER_ERR_INVALID_CONTINUE")
     ELSE IF PARSER_IS_LOOP(type)
       THEN AddBranchItem(c, parser_stack_iterator_skip(iterator, 1), opcode, TRUE)
     ELSE IF parser_statement_length(type) = 0 THEN [c EXCEPT !.fault = TRUE]
     ELSE ContinueWalk(
            c, parser_stack_iterator_skip(iterator, parser_statement_length(type)),
            IF type \in {PARSER_STATEMENT_WITH, PARSER_STATEMENT_TRY}
              THEN "CBC_JUMP_FORWARD_EXIT_CONTEXT" ELSE opcode)

parser_parse_continue_statement(c) ==
  LET Walk(c1) ==
        IF ~Ok(c1) THEN c1
        ELSE IF ~c1.token.was_newline /\ IsIdent(c1.token)
          THEN ContinueLabelWalk(c1, parser_stack_iterator_init(c1), 0, FALSE,
                                 "CBC_JUMP_FORWARD")
        ELSE ContinueWalk(c1, parser_stack_iterator_init(c1), "CBC_JUMP_FORWARD")
  IN Walk(lexer_next_token(c))

\* The search that looks at the statement on top of the stack only.
LabelWalk_first(c, iterator, label_literal) ==
  LET type == parser_stack_iterator_read_uint8(c, iterator)
      at == parser_stack_iterator_skip(iterator, 1)
      label_statement == LabelOf(parser_stack_iterator_read(c, at, SizeofLabel))
  IN IF /\ type = PARSER_STATEMENT_LABEL
        /\ lexer_same_identifiers(label_literal, label_statement.label_ident)
       THEN parser_raise_error(c, "PARSER_ERR_DUPLICATED_LABEL")
       ELSE c

\* The search of parser_parse_label for a label of the same name.
RECURSIVE LabelWalk(_, _, _)
LabelWalk(c, iterator, label_literal) ==
  LET type == parser_stack_iterator_read_uint8(c, iterator)
      at == parser_stack_iterator_skip(iterator, 1)
      label_statement == LabelOf(parser_stack_iterator_read(c, at, SizeofLabel))
  IN IF type = PARSER_STATEMENT_START THEN c
     ELSE IF type = PARSER_STATEMENT_LABEL
       THEN IF lexer_same_identifiers(label_literal, label_statement.label_ident)
              THEN parser_raise_error(c, "PARSER_ERR_DUPLICATED_LABEL")
              ELSE LabelWalk(c, parser_stack_iterator_skip(at, SizeofLabel),
                             label_literal)
     ELSE IF parser_statement_length(type) = 0 THEN [c EXCEPT !.fault = TRUE]
     ELSE LabelWalk(c, parser_stack_iterator_skip(
                         iterator, parser_statement_length(type)), label_literal)

parser_parse_label(c, label_literal) ==
  InitLastStatement(
    parser_stack_push_uint8(
      parser_stack_push(LabelWalk(c, parser_stack_iterator_init(c), label_literal),
                        LabelCells([label_ident |-> label_literal,
                                    break_list_p |-> << >>])),
      PARSER_STATEMENT_LABEL))

RECURSIVE parser_free_jumps(_, _)
parser_free_jumps(c, iterator) ==
  LET type == parser_stack_iterator_read_uint8(c, iterator)
      at == parser_stack_iterator_skip(iterator, 1)
      label == LabelOf(parser_stack_iterator_read(c, at, SizeofLabel))
      loop == LoopOf(parser_stack_iterator_read(c, at, SizeofLoop))
      switch_statement ==
        SwitchOf(parser_stack_iterator_read(
                   c, parser_stack_iterator_skip(at, SizeofLoop), SizeofSwitch))
  IN IF type = PARSER_STATEMENT_START THEN c
     ELSE IF type = PARSER_STATEMENT_LABEL
       THEN parser_free_jumps(FreeList(c, label.break_list_p),
                              parser_stack_iterator_skip(at, SizeofLabel))
     ELSE IF type \in {PARSER_STATEMENT_SWITCH, PARSER_STATEMENT_SWITCH_NO_DEFAULT}
       THEN parser_free_jumps(
              FreeList(FreeList(c, switch_statement.branch_list_p),
                       loop.branch_list_p),
              parser_stack_iterator_skip(at, SizeofLoop + SizeofSwitch))
     ELSE IF PARSER_IS_LOOP(type)
       THEN parser_free_jumps(
              FreeList(c, loop.branch_list_p),
              parser_stack_iterator_skip(at, parser_statement_length(type) - 1))
     ELSE IF parser_statement_length(type) = 0 THEN [c EXCEPT !.fault = TRUE]
     ELSE parser_free_jumps(c, parser_stack_iterator_skip(
                                 iterator, parser_statement_length(type)))

(* ----------------------------- source text ---------------------------- *)

One(S) == { << t >> : t \in S }

Cat(A, B) == { a \o b : a \in A, b \in B }

T(type) == Tok(type, FALSE)

Ident(name) == IdentTok(<< name >>, FALSE, "0")

\* The string literals of the source text: the directive, the directive
\* spelt with an escape sequence, the directive followed by one more
\* character, and another literal of ten characters.
StringLiterals ==
  { PARSER_USE_STRICT_LITERAL,
    << "u", "s", "e", "\\", "4", "0", "s", "t", "r", "i" >>,
    PARSER_USE_STRICT_LITERAL \o << "!" >>,
    << "u", "s", "e", "_", "s", "t", "r", "i", "c", "t" >> }

Langs ==
  {"prologue", "simple", "loops", "labels", "branch", "try", "blocks", "exits",
   "nested", "forin", "width", "switch"}

SourceLength(l) ==
  CASE l = "prologue" -> MaxSrcPrologue
    [] l = "simple" -> MaxSrcSimple
    [] l = "loops" -> MaxSrcLoops
    [] l = "labels" -> MaxSrcLabels
    [] l = "branch" -> MaxSrcBranch
    [] l = "try" -> MaxSrcTry
    [] l = "blocks" -> MaxSrcBlocks
    [] l = "exits" -> MaxSrcExits
    [] l = "nested" -> MaxSrcNested
    [] l = "forin" -> MaxSrcForIn
    [] l = "width" -> MaxSrcWidth
    [] OTHER -> MaxSrcSwitch

\* The tokens a statement of the text may begin with.
Words(l) ==
  CASE l = "prologue" ->
         { StringTok(str, TRUE) : str \in StringLiterals }
           \cup { StringTok(PARSER_USE_STRICT_LITERAL, FALSE),
                  IdentTok(<< "a" >>, FALSE, "0"), IdentTok(<< "a" >>, TRUE, "0"),
                  IdentTok(<< "l", "e", "t" >>, TRUE, "1"),
                  Tok("LEXER_ADD", TRUE), Tok("LEXER_KEYW_WITH", TRUE) }
           \cup { Tok(type, FALSE) :
                    type \in {"LEXER_SEMICOLON", "LEXER_RIGHT_BRACE"} }
    [] l = "simple" ->
         { IdentTok(<< "a" >>, FALSE, "0"), IdentTok(<< "a" >>, TRUE, "0") }
           \cup { Tok(type, FALSE) :
                    type \in {"LEXER_SEMICOLON", "LEXER_LEFT_BRACE",
                              "LEXER_RIGHT_BRACE", "LEXER_KEYW_VAR",
                              "LEXER_KEYW_FUNCTION", "LEXER_KEYW_THROW",
                              "LEXER_KEYW_RETURN", "LEXER_KEYW_DEBUGGER",
                              "LEXER_LIT_TRUE"} }
    [] l = "loops" ->
         { Tok(type, FALSE) :
             type \in {"LEXER_SEMICOLON", "LEXER_RIGHT_BRACE", "LEXER_KEYW_DO",
                       "LEXER_KEYW_WHILE", "LEXER_KEYW_FOR", "LEXER_KEYW_BREAK",
                       "LEXER_KEYW_CONTINUE"} }
    [] l = "labels" ->
         { IdentTok(<< name >>, FALSE, "0") : name \in {"a", "b"} }
           \cup { Tok(type, FALSE) :
                    type \in {"LEXER_LEFT_BRACE", "LEXER_KEYW_DO",
                              "LEXER_KEYW_BREAK", "LEXER_KEYW_CONTINUE"} }
    [] l = "branch" ->
         { IdentTok(<< "a" >>, FALSE, "0") }
           \cup { Tok(type, FALSE) :
                    type \in {"LEXER_SEMICOLON", "LEXER_RIGHT_BRACE",
                              "LEXER_KEYW_IF", "LEXER_KEYW_ELSE",
                              "LEXER_KEYW_WITH"} }
    [] l = "try" ->
         { Tok(type, FALSE) :
             type \in {"LEXER_RIGHT_BRACE", "LEXER_KEYW_TRY",
                       "LEXER_KEYW_CATCH", "LEXER_KEYW_FINALLY"} }
    [] l = "blocks" ->
         { Tok(type, FALSE) :
             type \in {"LEXER_LEFT_BRACE", "LEXER_KEYW_WHILE"} }
           \cup { Tok(type, TRUE) :
                    type \in {"LEXER_RIGHT_BRACE", "LEXER_KEYW_BREAK",
                              "LEXER_KEYW_CONTINUE"} }
    [] l = "exits" ->
         { IdentTok(<< "a" >>, FALSE, "0") }
           \cup { Tok(type, FALSE) :
                    type \in {"LEXER_KEYW_DO", "LEXER_KEYW_FOR",
                              "LEXER_KEYW_WITH", "LEXER_KEYW_TRY",
                              "LEXER_KEYW_BREAK", "LEXER_KEYW_CONTINUE"} }
    [] l = "nested" ->
         { Tok(type, FALSE) :
             type \in {"LEXER_SEMICOLON", "LEXER_KEYW_IF", "LEXER_KEYW_ELSE"} }
    [] l = "width" ->
         { Tok(type, FALSE) :
             type \in {"LEXER_SEMICOLON", "LEXER_KEYW_WITH", "LEXER_KEYW_TRY"} }
    [] l = "forin" ->
         { IdentTok(<< "a" >>, FALSE, "0") }
           \cup { Tok(type, FALSE) :
                    type \in {"LEXER_KEYW_DO", "LEXER_KEYW_FOR",
                              "LEXER_KEYW_CONTINUE"} }
    [] OTHER ->
         { Tok(type, FALSE) :
             type \in {"LEXER_SEMICOLON", "LEXER_RIGHT_BRACE",
                       "LEXER_KEYW_SWITCH", "LEXER_KEYW_BREAK",
                       "LEXER_KEYW_CASE", "LEXER_KEYW_DEFAULT",
                       "LEXER_KEYW_DO", "LEXER_KEYW_CONTINUE"} }

Tokens == Words(lang)

Next1 == One(Tokens)

\* The text after a statement whose token may be followed by a semicolon
\* that the handler reads over.
AfterSemicolon ==
  One(Tokens \ {T("LEXER_SEMICOLON")})
    \cup Cat({<< T("LEXER_SEMICOLON") >>}, Next1)

\* The text where the code asks for one token type: that token, or a comma.
Expect(type) == { T(type), T("LEXER_COMMA") }

\* The operands of the text.
Operands ==
  IF lang = "loops"
    THEN { Ident("a"), T("LEXER_LIT_TRUE"), T("LEXER_LIT_FALSE"),
           T("LEXER_LOGICAL_NOT") }
    ELSE { Ident("a") }

\* ( expression ) and what may stand in its place.
Enclosed ==
  Cat({<< T("LEXER_LEFT_PAREN") >>},
      Cat(One(Operands \cup {T("LEXER_ADD")}), One(Expect("LEXER_RIGHT_PAREN"))))
    \cup {<< T("LEXER_COMMA") >>}

\* The text scanned up to a terminator: nothing, an operand, or an operator
\* the scanner lets through; or a text the scanner refuses, at once or
\* inside a parenthesis.
Scanned(terminator) ==
  Cat({<< >>} \cup One(Operands \cup {T("LEXER_ADD")}), {<< T(terminator) >>})
    \cup {<< T("LEXER_RIGHT_BRACE") >>,
          << T("LEXER_LEFT_PAREN"), T("LEXER_RIGHT_BRACE") >>}

\* identifier, then the rest of a var statement.
VarText ==
  Cat(One({Ident("a"), T("LEXER_COMMA")}),
      Next1 \cup Cat({<< T("LEXER_ASSIGN") >>}, Next1))

FunctionText ==
  Cat(One({Ident("a"), T("LEXER_COMMA")}),
      Cat(One({T("LEXER_FUNCTION_TEXT"), T("LEXER_COMMA")}), Next1))

\* The text after an identifier that begins a statement.
AfterIdent ==
  IF lang \in {"labels", "exits", "forin"}
    THEN Cat({<< T("LEXER_COLON") >>}, Next1)
    ELSE Cat(Next1, Next1) \cup Cat({<< T("LEXER_ADD") >>}, Next1)
           \cup (IF lang = "simple"
                   THEN Cat({<< T("LEXER_COLON") >>}, Next1) ELSE {})

\* The head of a for statement after the for keyword.
ForText ==
  (IF lang = "forin" THEN {}
   ELSE Cat({<< T("LEXER_LEFT_PAREN") >>},
            Cat({<< T("LEXER_SEMICOLON") >>,
                 << Ident("a"), T("LEXER_SEMICOLON") >>,
                 << T("LEXER_KEYW_VAR"), Ident("a"), T("LEXER_SEMICOLON") >>},
                Cat(Scanned("LEXER_SEMICOLON"), Scanned("LEXER_RIGHT_PAREN")))))
    \cup Cat({<< T("LEXER_LEFT_PAREN") >>},
             Cat({<< Ident("a") >>, << T("LEXER_KEYW_VAR"), Ident("a") >>,
                  << T("LEXER_LIT_TRUE") >>},
                 {<< T("LEXER_KEYW_IN"), Ident("a"), T("LEXER_RIGHT_PAREN") >>,
                  << T("LEXER_KEYW_IN"), Ident("a"), T("LEXER_COMMA") >>}))
    \cup {<< T("LEXER_COMMA") >>}

\* The clauses of the body of a switch statement.
Clauses ==
  { << T("LEXER_KEYW_CASE"), Ident("a"), T("LEXER_COLON") >>,
    << T("LEXER_KEYW_DEFAULT"), T("LEXER_COLON") >>,
    << T("LEXER_KEYW_CASE"), Ident("a"), T("LEXER_COLON"),
       T("LEXER_KEYW_BREAK"), T("LEXER_SEMICOLON") >>,
    << T("LEXER_KEYW_CASE"), T("LEXER_ADD"), T("LEXER_COLON") >>,
    << T("LEXER_KEYW_DEFAULT"), T("LEXER_COLON"), T("LEXER_KEYW_CONTINUE") >>,
    << T("LEXER_KEYW_DEFAULT"), T("LEXER_COMMA") >> }

\* ( expression ) { body } after the switch keyword.
SwitchText ==
  Cat(Enclosed,
      Cat(One(Expect("LEXER_LEFT_BRACE")),
          Cat({<< >>, << T("LEXER_SEMICOLON") >>}
                \cup Clauses \cup Cat(Clauses, Clauses),
              {<< T("LEXER_RIGHT_BRACE") >>})))

\* The text after the closing brace of a try, catch or finally block.
TryText ==
  One(Tokens \ {T("LEXER_KEYW_CATCH"), T("LEXER_KEYW_FINALLY")})
    \cup Cat({<< T("LEXER_KEYW_CATCH") >>},
             Cat({<< T("LEXER_LEFT_PAREN"), Ident("a"), T("LEXER_RIGHT_PAREN"),
                     T("LEXER_LEFT_BRACE") >>,
                  << T("LEXER_LEFT_PAREN"), Ident("a"), T("LEXER_COMMA") >>}, Next1))
    \cup Cat({<< T("LEXER_KEYW_FINALLY") >>},
             Cat(One(Expect("LEXER_LEFT_BRACE")), Next1))

(* --------------------------- initial state ---------------------------- *)

\* The context as the caller of parser_parse_statements hands it over:
\* nothing emitted, the statement stack empty, the first token not yet read.
EntryContext(l, flags, f) ==
  [ token |-> EosTok(FALSE), sp |-> 0, send |-> SourceLength(l),
    flags |-> flags, stack |-> << >>, top |-> DataByte, last |-> 0,
    code |-> << >>, lastop |-> PARSER_CBC_UNAVAILABLE, depth |-> 0,
    cdepth |-> 0, alloc |-> {}, fault |-> FALSE, err |-> "none",
    src |-> << >>, fill |-> f, range |-> NoRange ]

\* Global code, a function body, a function body with an argument named
\* eval or arguments.
EntryFlags(l) ==
  CASE l = "prologue" ->
         { {},
           {"PARSER_IS_FUNCTION", "PARSER_IS_CLOSURE"},
           {"PARSER_IS_FUNCTION", "PARSER_IS_CLOSURE", "PARSER_HAS_NON_STRICT_ARG"} }
    [] l = "simple" -> { {}, {"PARSER_IS_FUNCTION", "PARSER_IS_CLOSURE"} }
    [] OTHER -> { {} }

\* Every state variable from the context a handler ends with.
Commit(c, next_pc, required) ==
  /\ lang' = lang
  /\ source' = c.src
  /\ token' = c.token
  /\ source_p' = c.sp
  /\ source_end_p' = c.send
  /\ status_flags' = c.flags
  /\ stack' = c.stack
  /\ stack_top_uint8' = c.top
  /\ last_statement' = c.last
  /\ code' = c.code
  /\ last_cbc_opcode' = c.lastop
  /\ stack_depth' = c.depth
  /\ context_stack_depth' = c.cdepth
  /\ allocated' = c.alloc
  /\ heap_fault' = c.fault
  /\ vm' = vm
  /\ scan_range' = c.range
  /\ err' = c.err
  /\ pc' = IF Ok(c) THEN next_pc ELSE "error"
  /\ statement_terminator_required' = (Ok(c) /\ required)

\* The context of a handler that finds f where the source has new text.
Run(f) == [Cx EXCEPT !.fill = f]

\* The part of each text a handler can reach: the tokens up to the end of
\* the source and the one after them, which the end of the source takes
\* its newline flag from.
Fit(S) ==
  LET rest == source_end_p - source_p + 1
  IN { SubSeq(f, 1, IF Len(f) < rest THEN Len(f) ELSE rest) : f \in S }

\* Entry of parser_parse_statements: the first token is the current one and
\* the START sentinel is pushed.
Init ==
  \E l \in Langs :
    \E flags \in EntryFlags(l), t \in Words(l) :
      LET c == InitLastStatement(
                 parser_stack_push_uint8(
                   lexer_next_token(EntryContext(l, flags, << t >>)),
                   PARSER_STATEMENT_START))
      IN /\ lang = l
         /\ source = c.src
         /\ token = c.token
         /\ source_p = c.sp
         /\ source_end_p = c.send
         /\ status_flags = c.flags
         /\ stack = c.stack
         /\ stack_top_uint8 = c.top
         /\ last_statement = c.last
         /\ code = c.code
         /\ last_cbc_opcode = c.lastop
         /\ stack_depth = c.depth
         /\ context_stack_depth = c.cdepth
         /\ allocated = c.alloc
         /\ heap_fault = c.fault
         /\ vm = NoVm
         /\ scan_range = NoRange
         /\ err = "none"
         /\ pc = "prologue"
         /\ statement_terminator_required = FALSE

(* -------------------------- directive prologue ------------------------ *)

\* memcmp over the first length characters.
memcmp_equal(left, right, length) ==
  /\ Len(left) >= length
  /\ Len(right) >= length
  /\ \A i \in 1..length : left[i] = right[i]

\* The comparison without the test of the length of the literal.
IsUseStrict_nolength(lit_location) ==
  /\ ~lit_location.has_escape
  /\ memcmp_equal(PARSER_USE_STRICT_LITERAL, lit_location.chars,
                  PARSER_USE_STRICT_LENGTH)

IsUseStrict(lit_location) ==
  /\ Len(lit_location.chars) = PARSER_USE_STRICT_LENGTH
  /\ ~lit_location.has_escape
  /\ memcmp_equal(PARSER_USE_STRICT_LITERAL, lit_location.chars,
                  PARSER_USE_STRICT_LENGTH)

\* The string literal is the start of an expression statement.
StartsExpression(t) ==
  /\ t.type # "LEXER_SEMICOLON"
  /\ t.type # "LEXER_RIGHT_BRACE"
  /\ \/ ~t.was_newline
     \/ LEXER_IS_BINARY_OP_TOKEN(t.type)
     \/ t.type \in {"LEXER_LEFT_PAREN", "LEXER_LEFT_SQUARE", "LEXER_DOT"}

\* The token handed to the main loop with its type saved.
SaveTokenType(c) ==
  WhenOk(c, [c EXCEPT !.token.literal_is_reserved = c.token.type,
                      !.token.type = "LEXER_EXPRESSION_START"])

\* status_flags |= PARSER_IS_STRICT, written as a toggle of the bit.
SetStrict_toggle(c) ==
  WhenOk(c, [c EXCEPT !.flags = IF "PARSER_IS_STRICT" \in @
                                  THEN @ \ {"PARSER_IS_STRICT"}
                                  ELSE @ \cup {"PARSER_IS_STRICT"}])

SetStrict(c) == WhenOk(c, [c EXCEPT !.flags = @ \cup {"PARSER_IS_STRICT"}])

\* One iteration of the loop over the directive prologue.
DirectivePrologue ==
  /\ pc = "prologue"
  /\ IsString(token)
  /\ \E f \in Fit(AfterSemicolon) :
       LET lit_location == token.lit_location
           Reserved(c2) ==
             IF /\ IsUseStrict(lit_location)
                /\ IsIdent(c2.token)
                /\ c2.token.literal_is_reserved # "0"
               THEN parser_raise_error(c2, "PARSER_ERR_STRICT_IDENT_NOT_ALLOWED")
               ELSE c2
           Semicolon(c3) ==
             IF Ok(c3) /\ c3.token.type = "LEXER_SEMICOLON"
               THEN lexer_next_token(c3) ELSE c3
           Directive(c1) ==
             IF Ok(c1) /\ StartsExpression(c1.token)
               THEN Commit(SaveTokenType(
                             parser_emit_cbc_literal(c1, "CBC_PUSH_LITERAL")),
                           "check", FALSE)
               ELSE Commit(Semicolon(Reserved(IF IsUseStrict(lit_location)
                                                THEN SetStrict(c1) ELSE c1)),
                           "prologue", FALSE)
       IN Directive(lexer_next_token(Run(f)))

\* After the prologue: the arguments of a strict function are checked.
PrologueEnd ==
  /\ \/ pc = "prologue" /\ ~IsString(token)
     \/ pc = "check"
  /\ IF /\ "PARSER_IS_STRICT" \in status_flags
        /\ "PARSER_HAS_NON_STRICT_ARG" \in status_flags
       THEN Commit(parser_raise_error(Cx, "PARSER_ERR_NON_STRICT_ARG_DEFINITION"),
                   "main", FALSE)
       ELSE Commit(Cx, "main", FALSE)

(* ------------------------------ main loop ----------------------------- *)

\* The loop condition holds and the statement begins with one of the types.
AtStatement(types) ==
  /\ pc = "main"
  /\ ~(token.type = "LEXER_EOS" /\ stack_top_uint8 = PARSER_STATEMENT_START)
  /\ token.type \in types

\* break out of the switch: the opcode is flushed, a terminator is required.
Break(c) == Commit(parser_flush_cbc(c), "term", TRUE)

\* continue with the next statement.
Continue(c) == Commit(c, "main", FALSE)

StmtSemicolon ==
  /\ AtStatement({"LEXER_SEMICOLON"})
  /\ Break(Cx)

\* A right brace that is taken for the end of any statement.
StmtRightBrace_lenient ==
  /\ AtStatement({"LEXER_RIGHT_BRACE"})
  /\ Break(Cx)

StmtRightBrace ==
  /\ AtStatement({"LEXER_RIGHT_BRACE"})
  /\ IF stack_top_uint8 \in
          {PARSER_STATEMENT_LABEL, PARSER_STATEMENT_IF, PARSER_STATEMENT_ELSE,
           PARSER_STATEMENT_DO_WHILE, PARSER_STATEMENT_WHILE,
           PARSER_STATEMENT_FOR, PARSER_STATEMENT_FOR_IN, PARSER_STATEMENT_WITH}
       THEN Break(parser_raise_error(Cx, "PARSER_ERR_STATEMENT_EXPECTED"))
       ELSE Break(Cx)

StmtLeftBrace ==
  /\ AtStatement({"LEXER_LEFT_BRACE"})
  /\ \E f \in Fit(Next1) :
       Continue(lexer_next_token(
                  InitLastStatement(
                    parser_stack_push_uint8(Run(f), PARSER_STATEMENT_BLOCK))))

StmtVar ==
  /\ AtStatement({"LEXER_KEYW_VAR"})
  /\ \E f \in Fit(VarText) : Break(parser_parse_var_statement(Run(f)))

StmtFunction ==
  /\ AtStatement({"LEXER_KEYW_FUNCTION"})
  /\ \E f \in Fit(FunctionText) : Continue(parser_parse_function_statement(Run(f)))

StmtIf ==
  /\ AtStatement({"LEXER_KEYW_IF"})
  /\ \E f \in Fit(Cat(Enclosed, Next1)) : Continue(parser_parse_if_statement_start(Run(f)))

StmtSwitch ==
  /\ AtStatement({"LEXER_KEYW_SWITCH"})
  /\ \E f \in Fit(SwitchText) : Continue(parser_parse_switch_statement_start(Run(f)))

StmtDo ==
  /\ AtStatement({"LEXER_KEYW_DO"})
  /\ \E f \in Fit(Next1) :
       LET c == Run(f)
           do_while_statement == [start_offset |-> byte_code_size(c)]
       IN Continue(lexer_next_token(
                     InitLastStatement(
                       parser_stack_push_uint8(
                         parser_stack_push(
                           parser_stack_push(c, DoWhileCells(do_while_statement)),
                           LoopCells([branch_list_p |-> << >>])),
                         PARSER_STATEMENT_DO_WHILE))))

StmtWhile ==
  /\ AtStatement({"LEXER_KEYW_WHILE"})
  /\ \E f \in Fit(Cat(One(Expect("LEXER_LEFT_PAREN")),
                  Cat(Scanned("LEXER_RIGHT_PAREN"), Next1))) :
       Continue(parser_parse_while_statement_start(Run(f)))

StmtFor ==
  /\ AtStatement({"LEXER_KEYW_FOR"})
  /\ \E f \in Fit(Cat(ForText, Next1)) :
       Continue(parser_parse_for_statement_start(Run(f)))

StmtWith ==
  /\ AtStatement({"LEXER_KEYW_WITH"})
  /\ \E f \in Fit(Cat(Enclosed, Next1)) :
       Continue(parser_parse_with_statement_start(Run(f)))

StmtTry ==
  /\ AtStatement({"LEXER_KEYW_TRY"})
  /\ \E f \in Fit(Cat(One(Expect("LEXER_LEFT_BRACE")), Next1)) :
       LET Push(c2) ==
             lexer_next_token(
               InitLastStatement(
                 parser_stack_push_uint8(
                   parser_stack_push(
                     parser_emit_cbc_ext_forward_branch(
                       c2, "CBC_EXT_TRY_CREATE_CONTEXT"),
                     TryCells([type |-> "parser_try_block",
                               branch |-> BranchHere(c2)])),
                   PARSER_STATEMENT_TRY)))
           Enter(c1) ==
             WhenOk(c1, [c1 EXCEPT !.cdepth =
                           @ + PARSER_TRY_CONTEXT_STACK_ALLOCATION])
       IN Continue(Push(Enter(ExpectType(lexer_next_token(Run(f)),
                                         "LEXER_LEFT_BRACE",
                                         "PARSER_ERR_LEFT_BRACE_EXPECTED"))))

StmtDefault ==
  /\ AtStatement({"LEXER_KEYW_DEFAULT"})
  /\ \E f \in Fit(Cat(One(Expect("LEXER_COLON")), Next1)) :
       Continue(parser_parse_default_statement(Run(f)))

StmtCase ==
  /\ AtStatement({"LEXER_KEYW_CASE"})
  /\ \E f \in Fit(Cat(Scanned("LEXER_COLON"), Next1)) :
       Continue(parser_parse_case_statement(Run(f)))

StmtBreak ==
  /\ AtStatement({"LEXER_KEYW_BREAK"})
  /\ \E f \in Fit(Cat(Next1, Next1)) : Break(parser_parse_break_statement(Run(f)))

StmtContinue ==
  /\ AtStatement({"LEXER_KEYW_CONTINUE"})
  /\ \E f \in Fit(Cat(Next1, Next1)) : Break(parser_parse_continue_statement(Run(f)))

StmtThrow ==
  /\ AtStatement({"LEXER_KEYW_THROW"})
  /\ \E f \in Fit(Cat(Next1, Next1)) :
       LET Thrown(c1) ==
             IF Ok(c1) /\ c1.token.was_newline
               THEN parser_raise_error(c1, "PARSER_ERR_EXPRESSION_EXPECTED")
               ELSE parser_emit_cbc(parser_parse_expression(c1, {"PARSE_EXPR"}),
                                    "CBC_THROW")
       IN Break(Thrown(lexer_next_token(Run(f))))

StmtReturn ==
  /\ AtStatement({"LEXER_KEYW_RETURN"})
  /\ \E f \in Fit(Cat(Next1, Next1)) :
       LET Returned(c1) ==
             IF /\ Ok(c1)
                /\ \/ c1.token.was_newline
                   \/ c1.token.type \in {"LEXER_SEMICOLON", "LEXER_RIGHT_BRACE"}
               THEN parser_emit_cbc(c1, "CBC_RETURN_WITH_UNDEFINED")
               ELSE parser_emit_cbc(parser_parse_expression(c1, {"PARSE_EXPR"}),
                                    "CBC_RETURN")
       IN Break(IF "PARSER_IS_FUNCTION" \notin status_flags
                  THEN parser_raise_error(Cx, "PARSER_ERR_INVALID_RETURN")
                  ELSE Returned(lexer_next_token(Run(f))))

StmtDebugger ==
  /\ AtStatement({"LEXER_KEYW_DEBUGGER"})
  /\ \E f \in Fit(Next1) :
       Break(lexer_next_token(parser_emit_cbc_ext(Run(f), "CBC_EXT_DEBUGGER")))

\* The default case of the switch: an expression statement.
ExpressionStatement(c) ==
  IF ~Ok(c) THEN c
  ELSE parser_parse_expression(
         IF c.token.type = "LEXER_EXPRESSION_START"
           THEN [c EXCEPT !.token.type = c.token.literal_is_reserved] ELSE c,
         (IF "PARSER_IS_FUNCTION" \in c.flags
            THEN {"PARSE_EXPR_STATEMENT"} ELSE {"PARSE_EXPR_BLOCK"})
           \cup (IF c.token.type = "LEXER_EXPRESSION_START"
                   THEN {"PARSE_EXPR_HAS_LITERAL"} ELSE {}))

\* An identifier begins a label or an expression statement.
StmtLiteral ==
  /\ AtStatement({"LEXER_LITERAL"})
  /\ IsIdent(token)
  /\ \E f \in Fit(AfterIdent) :
       LET Labelled(c1) ==
             IF Ok(c1) /\ c1.token.type = "LEXER_COLON"
               THEN Continue(lexer_next_token(
                               parser_parse_label(c1, token.lit_location)))
               ELSE Break(ExpressionStatement(
                            SaveTokenType(
                              parser_emit_cbc_literal(c1, "CBC_PUSH_IDENT"))))
       IN Labelled(lexer_next_token(Run(f)))

StmtExpression ==
  /\ AtStatement({token.type})
  /\ token.type \notin
       {"LEXER_SEMICOLON", "LEXER_RIGHT_BRACE", "LEXER_LEFT_BRACE",
        "LEXER_KEYW_VAR", "LEXER_KEYW_FUNCTION", "LEXER_KEYW_IF",
        "LEXER_KEYW_SWITCH", "LEXER_KEYW_DO", "LEXER_KEYW_WHILE",
        "LEXER_KEYW_FOR", "LEXER_KEYW_WITH", "LEXER_KEYW_TRY",
        "LEXER_KEYW_DEFAULT", "LEXER_KEYW_CASE", "LEXER_KEYW_BREAK",
        "LEXER_KEYW_CONTINUE", "LEXER_KEYW_THROW", "LEXER_KEYW_RETURN",
        "LEXER_KEYW_DEBUGGER"}
  /\ ~IsIdent(token)
  /\ \E f \in Fit(Next1) : Break(ExpressionStatement(Run(f)))

\* The loop ends: the sentinel is popped.
Finish ==
  /\ pc = "main"
  /\ token.type = "LEXER_EOS"
  /\ stack_top_uint8 = PARSER_STATEMENT_START
  /\ LET Closure(c2) ==
           IF "PARSER_IS_CLOSURE" \in status_flags
             THEN parser_raise_error(c2, "PARSER_ERR_STATEMENT_EXPECTED")
             ELSE c2
     IN Commit(Closure([parser_stack_pop_uint8(Cx) EXCEPT !.last = 0]),
               "done", FALSE)

(* ------------------------ statement terminator ------------------------ *)

AtTerminator ==
  /\ pc = "term"
  /\ statement_terminator_required

\* The terminator was seen to: the frame on the top of the stack is next.
Terminated(c) == Commit(c, "close", FALSE)

TermRightBraceBlock ==
  /\ AtTerminator
  /\ token.type = "LEXER_RIGHT_BRACE"
  /\ stack_top_uint8 = PARSER_STATEMENT_BLOCK
  /\ \E f \in Fit(Next1) :
       Terminated(lexer_next_token(
                    InitLastStatement(parser_stack_pop_uint8(Run(f)))))

\* The closing brace of a switch that patches the default jump whether the
\* body had a default label or not.
TermRightBraceSwitch_always ==
  /\ AtTerminator
  /\ token.type = "LEXER_RIGHT_BRACE"
  /\ stack_top_uint8 \in {PARSER_STATEMENT_SWITCH,
                          PARSER_STATEMENT_SWITCH_NO_DEFAULT}
  /\ \E f \in Fit(Next1) :
       LET c1 == parser_stack_pop_uint8(Run(f))
           loop == LoopOf(StackTop(c1, SizeofLoop))
           c2 == parser_stack_pop(c1, SizeofLoop)
           switch_statement == SwitchOf(StackTop(c2, SizeofSwitch))
           c3 == InitLastStatement(parser_stack_pop(c2, SizeofSwitch))
           c4 == parser_set_branch_to_current_position(
                   c3, switch_statement.default_branch)
       IN Terminated(lexer_next_token(
                       parser_set_breaks_to_current_position(c4,
                                                             loop.branch_list_p)))

TermRightBraceSwitch ==
  /\ AtTerminator
  /\ token.type = "LEXER_RIGHT_BRACE"
  /\ stack_top_uint8 \in {PARSER_STATEMENT_SWITCH,
                          PARSER_STATEMENT_SWITCH_NO_DEFAULT}
  /\ \E f \in Fit(Next1) :
       LET has_default == stack_top_uint8 = PARSER_STATEMENT_SWITCH
           c1 == parser_stack_pop_uint8(Run(f))
           loop == LoopOf(StackTop(c1, SizeofLoop))
           c2 == parser_stack_pop(c1, SizeofLoop)
           switch_statement == SwitchOf(StackTop(c2, SizeofSwitch))
           c3 == InitLastStatement(parser_stack_pop(c2, SizeofSwitch))
           c4 == IF has_default THEN c3
                 ELSE parser_set_branch_to_current_position(
                        c3, switch_statement.default_branch)
       IN Terminated(lexer_next_token(
                       parser_set_breaks_to_current_position(c4,
                                                             loop.branch_list_p)))

TermRightBraceTry ==
  /\ AtTerminator
  /\ token.type = "LEXER_RIGHT_BRACE"
  /\ stack_top_uint8 = PARSER_STATEMENT_TRY
  /\ \E f \in Fit(TryText) : Terminated(parser_parse_try_statement_end(Run(f)))

\* The closing brace that ends the parsing of the statements of global code
\* as it ends those of a function body.
TermRightBraceStart_anywhere ==
  /\ AtTerminator
  /\ token.type = "LEXER_RIGHT_BRACE"
  /\ stack_top_uint8 = PARSER_STATEMENT_START
  /\ Commit([parser_stack_pop_uint8(Cx) EXCEPT !.last = 0], "done", FALSE)

\* The closing brace of a function body ends the parsing of its statements.
TermRightBraceStart ==
  /\ AtTerminator
  /\ token.type = "LEXER_RIGHT_BRACE"
  /\ stack_top_uint8 = PARSER_STATEMENT_START
  /\ IF "PARSER_IS_CLOSURE" \in status_flags
       THEN Commit([parser_stack_pop_uint8(Cx) EXCEPT !.last = 0], "done", FALSE)
       ELSE Terminated(parser_raise_error(Cx, "PARSER_ERR_INVALID_RIGHT_SQUARE"))

\* A closing brace that ends a statement nested in another one.
TermRightBraceOther ==
  /\ AtTerminator
  /\ token.type = "LEXER_RIGHT_BRACE"
  /\ stack_top_uint8 \notin
       {PARSER_STATEMENT_BLOCK, PARSER_STATEMENT_SWITCH,
        PARSER_STATEMENT_SWITCH_NO_DEFAULT, PARSER_STATEMENT_TRY,
        PARSER_STATEMENT_START}
  /\ Terminated(Cx)

TermSemicolon ==
  /\ AtTerminator
  /\ token.type = "LEXER_SEMICOLON"
  /\ \E f \in Fit(Next1) : Terminated(lexer_next_token(Run(f)))

\* The end of the source alone stands for a terminator.
TermAutomatic_strict ==
  /\ AtTerminator
  /\ token.type \notin {"LEXER_RIGHT_BRACE", "LEXER_SEMICOLON"}
  /\ IF token.type # "LEXER_EOS"
       THEN Terminated(parser_raise_error(Cx, "PARSER_ERR_SEMICOLON_EXPECTED"))
       ELSE Terminated(Cx)

\* No terminator in the text: the end of the source or a newline stands for it.
TermAutomatic ==
  /\ AtTerminator
  /\ token.type \notin {"LEXER_RIGHT_BRACE", "LEXER_SEMICOLON"}
  /\ IF token.type # "LEXER_EOS" /\ ~token.was_newline
       THEN Terminated(parser_raise_error(Cx, "PARSER_ERR_SEMICOLON_EXPECTED"))
       ELSE Terminated(Cx)

(* ------------------------- end of a statement ------------------------- *)

AtFrame(type) ==
  /\ pc = "close"
  /\ stack_top_uint8 = type

\* continue of the terminator loop.
Again(c, required) == Commit(c, IF required THEN "term" ELSE "close", required)

CloseLabel ==
  /\ AtFrame(PARSER_STATEMENT_LABEL)
  /\ LET c1 == parser_stack_pop_uint8(Cx)
         label == LabelOf(StackTop(c1, SizeofLabel))
         c2 == InitLastStatement(parser_stack_pop(c1, SizeofLabel))
     IN Again(parser_set_breaks_to_current_position(c2, label.break_list_p), FALSE)

CloseIf ==
  /\ AtFrame(PARSER_STATEMENT_IF)
  /\ \E f \in Fit(Next1) :
       LET Ended(end) == Commit(end.c, IF end.r THEN "main" ELSE "close", FALSE)
       IN Ended(parser_parse_if_statement_end(Run(f)))

\* The end of the else branch without the patch of its jump.
CloseElse_nopatch ==
  /\ AtFrame(PARSER_STATEMENT_ELSE)
  /\ Again(InitLastStatement(
             parser_stack_pop(parser_stack_pop_uint8(Cx), SizeofIfElse)), FALSE)

CloseElse ==
  /\ AtFrame(PARSER_STATEMENT_ELSE)
  /\ LET c1 == parser_stack_pop_uint8(Cx)
         else_statement == IfElseOf(StackTop(c1, SizeofIfElse))
         c2 == InitLastStatement(parser_stack_pop(c1, SizeofIfElse))
     IN Again(parser_set_branch_to_current_position(c2, else_statement.branch),
              FALSE)

CloseDoWhile ==
  /\ AtFrame(PARSER_STATEMENT_DO_WHILE)
  /\ \E f \in Fit(Cat(Enclosed, Next1)) :
       Again(parser_parse_do_while_statement_end(Run(f)), TRUE)

CloseWhile ==
  /\ AtFrame(PARSER_STATEMENT_WHILE)
  /\ Again(parser_parse_while_statement_end(Cx), FALSE)

CloseFor ==
  /\ AtFrame(PARSER_STATEMENT_FOR)
  /\ Again(parser_parse_for_statement_end(Cx), FALSE)

\* The end of the for-in statement with the continue jumps set after the
\* branch on the next property.
CloseForIn_late ==
  /\ AtFrame(PARSER_STATEMENT_FOR_IN)
  /\ LET c1 == parser_stack_pop_uint8(Cx)
         loop == LoopOf(StackTop(c1, SizeofLoop))
         c2 == parser_stack_pop(c1, SizeofLoop)
         for_in_statement == ForInOf(StackTop(c2, SizeofForIn))
         c3 == InitLastStatement(parser_stack_pop(c2, SizeofForIn))
         c4 == parser_flush_cbc(c3)
         c5 == WhenOk(c4,
                 [c4 EXCEPT !.depth = @ - PARSER_FOR_IN_CONTEXT_STACK_ALLOCATION,
                            !.cdepth = @ - PARSER_FOR_IN_CONTEXT_STACK_ALLOCATION])
         c6 == parser_set_continues_to_current_position(
                 parser_emit_cbc_ext_backward_branch(
                   c5, "CBC_EXT_BRANCH_IF_FOR_IN_HAS_NEXT",
                   for_in_statement.start_offset),
                 loop.branch_list_p)
     IN Again(parser_set_branch_to_current_position(
                parser_set_breaks_to_current_position(c6, loop.branch_list_p),
                for_in_statement.branch), FALSE)

CloseForIn ==
  /\ AtFrame(PARSER_STATEMENT_FOR_IN)
  /\ LET c1 == parser_stack_pop_uint8(Cx)
         loop == LoopOf(StackTop(c1, SizeofLoop))
         c2 == parser_stack_pop(c1, SizeofLoop)
         for_in_statement == ForInOf(StackTop(c2, SizeofForIn))
         c3 == InitLastStatement(parser_stack_pop(c2, SizeofForIn))
         c4 == parser_flush_cbc(
                 parser_set_continues_to_current_position(c3, loop.branch_list_p))
         c5 == WhenOk(c4,
                 [c4 EXCEPT !.depth = @ - PARSER_FOR_IN_CONTEXT_STACK_ALLOCATION,
                            !.cdepth = @ - PARSER_FOR_IN_CONTEXT_STACK_ALLOCATION])
         c6 == parser_emit_cbc_ext_backward_branch(
                 c5, "CBC_EXT_BRANCH_IF_FOR_IN_HAS_NEXT",
                 for_in_statement.start_offset)
     IN Again(parser_set_branch_to_current_position(
                parser_set_breaks_to_current_position(c6, loop.branch_list_p),
                for_in_statement.branch), FALSE)

CloseWith ==
  /\ AtFrame(PARSER_STATEMENT_WITH)
  /\ Again(parser_parse_with_statement_end(Cx), FALSE)

\* Any other frame: the statement is over.
CloseDefault ==
  /\ pc = "close"
  /\ stack_top_uint8 \notin
       {PARSER_STATEMENT_LABEL, PARSER_STATEMENT_IF, PARSER_STATEMENT_ELSE,
        PARSER_STATEMENT_DO_WHILE, PARSER_STATEMENT_WHILE, PARSER_STATEMENT_FOR,
        PARSER_STATEMENT_FOR_IN, PARSER_STATEMENT_WITH}
  /\ Commit(Cx, "main", FALSE)

(* ---------------------------- error recovery -------------------------- *)

\* The catch at the top of the compilation: the branch nodes reachable from
\* last_statement are freed.
FreeJumps ==
  /\ pc = "error"
  /\ LET c == [Cx EXCEPT !.err = "none"]
         freed == IF last_statement # 0
                    THEN parser_free_jumps(c, last_statement) ELSE c
     IN /\ allocated' = freed.alloc
        /\ heap_fault' = freed.fault
        /\ pc' = "freed"
        /\ UNCHANGED << lang, source, err, statement_terminator_required, token,
                        source_p, source_end_p, status_flags, stack,
                        stack_top_uint8, last_statement, code, last_cbc_opcode,
                        stack_depth, context_stack_depth, vm, scan_range >>

Next ==
  \/ DirectivePrologue
  \/ PrologueEnd
  \/ StmtSemicolon
  \/ StmtRightBrace
  \/ StmtLeftBrace
  \/ StmtVar
  \/ StmtFunction
  \/ StmtIf
  \/ StmtSwitch
  \/ StmtDo
  \/ StmtWhile
  \/ StmtFor
  \/ StmtWith
  \/ StmtTry
  \/ StmtDefault
  \/ StmtCase
  \/ StmtBreak
  \/ StmtContinue
  \/ StmtThrow
  \/ StmtReturn
  \/ StmtDebugger
  \/ StmtLiteral
  \/ StmtExpression
  \/ Finish
  \/ TermRightBraceBlock
  \/ TermRightBraceSwitch
  \/ TermRightBraceTry
  \/ TermRightBraceStart
  \/ TermRightBraceOther
  \/ TermSemicolon
  \/ TermAutomatic
  \/ CloseLabel
  \/ CloseIf
  \/ CloseElse
  \/ CloseDoWhile
  \/ CloseWhile
  \/ CloseFor
  \/ CloseForIn
  \/ CloseWith
  \/ CloseDefault
  \/ FreeJumps

Spec == Init /\ [][Next]_vars

\* Every handler found the text it read.
SourceTextFound == err # "SOURCE_TEXT_MISSING"

(* ------------------------------ properties ---------------------------- *)

Strict == "PARSER_IS_STRICT" \in status_flags

\* The cells of the stack that hold the tag of a statement.
TagCells == { i \in DOMAIN stack : stack[i].k = "u8" }

\* The byte position the branch at the offset jumps to, in a buffer.
Target(buffer, offset) == buffer[offset + 1].arg + offset

ItemBranch(op) ==
  op \in {"CBC_JUMP_FORWARD", "CBC_JUMP_FORWARD_EXIT_CONTEXT",
          "CBC_BRANCH_IF_STRICT_EQUAL"}

LoopTags ==
  {PARSER_STATEMENT_DO_WHILE, PARSER_STATEMENT_WHILE, PARSER_STATEMENT_FOR,
   PARSER_STATEMENT_FOR_IN}

\* C1: after a failing parse and the run of parser_free_jumps from
\* last_statement no branch node is left allocated.
C1_NoNodeAfterFreeJumps == pc = "freed" => allocated = {}

\* C2: when parser_parse_statements returns normally every forward branch of
\* the buffer has had its operand written.
C2_ForwardBranchesPatched ==
  pc = "done" =>
    \A i \in DOMAIN code : IsForwardBranch(code[i].op) => code[i].patched >= 1

C2_Witness ==
  /\ pc = "done"
  /\ \E i \in DOMAIN code : code[i].op = "CBC_JUMP_FORWARD" /\ code[i].patched = 1
  /\ \E i \in DOMAIN code : code[i].op = "CBC_BRANCH_IF_FALSE_FORWARD"

RECURSIVE WalkReachesStart(_, _)
WalkReachesStart(s, it) ==
  IF it < 1 \/ it > Len(s) THEN FALSE
  ELSE IF s[it].k # "u8" THEN FALSE
  ELSE IF s[it].v = PARSER_STATEMENT_START THEN TRUE
  ELSE /\ parser_statement_length(s[it].v) > 0
       /\ \A j \in (it - parser_statement_length(s[it].v) + 1)..(it - 1) :
            j >= 1 /\ s[j].k # "u8"
       /\ WalkReachesStart(s, it - parser_statement_length(s[it].v))

\* C4: wherever the stack is walked, from its top between two handlers and
\* from last_statement after an error, the steps of parser_statement_length
\* lead from tag to tag down to START, and no walk of a handler missed a tag.
C4_WalksLandOnTags ==
  /\ ~heap_fault
  /\ pc \in {"prologue", "check", "main", "term", "close"} =>
       last_statement = Len(stack) /\ WalkReachesStart(stack, Len(stack))
  /\ pc \in {"error", "freed"} /\ last_statement # 0 =>
       WalkReachesStart(stack, last_statement)

C4_Witness ==
  /\ pc = "freed"
  /\ last_statement > 1
  /\ \E i \in TagCells : i < last_statement /\ stack[i].v = PARSER_STATEMENT_WHILE
  /\ \E i \in TagCells : i <= last_statement /\ stack[i].v = PARSER_STATEMENT_DO_WHILE

\* C5: stack_top_uint8 is the top byte of the stack in every state, and
\* after a push, a pop and a change of the top byte of any value on it.
C5_TopByteMirrored ==
  /\ stack_top_uint8 = TopByte(stack)
  /\ \A v \in 0..PARSER_STATEMENT_TRY :
       LET Mirrors(c) == c.top = TopByte(c.stack)
       IN /\ Mirrors(parser_stack_push_uint8(Cx, v))
          /\ stack # << >> =>
               /\ Mirrors(parser_stack_pop_uint8(Cx))
               /\ stack[Len(stack)].k = "u8" =>
                    Mirrors(parser_stack_change_last_uint8(Cx, v))

C5_Witness ==
  /\ stack_top_uint8 = PARSER_STATEMENT_ELSE
  /\ pc = "main"

\* C6: at the start of every iteration of the main loop stack_depth equals
\* context_stack_depth, and both are 0 when parser_parse_statements is over.
C6_DepthsAgree ==
  /\ pc = "main" => stack_depth = context_stack_depth
  /\ pc = "done" => stack_depth = 0 /\ context_stack_depth = 0

C6_Witness ==
  /\ pc = "main"
  /\ context_stack_depth = 0
  /\ \E i \in DOMAIN code : code[i].op = "CBC_EXT_WITH_CREATE_CONTEXT"
                              /\ code[i].patched = 1

\* C7: a step that starts with PARSER_IS_STRICT set ends with it set.
C7_StrictStays == [][Strict => Strict']_vars

C7_Witness ==
  /\ Strict
  /\ pc = "done"

\* The literal of the token is the directive: ten bytes, no escape sequence,
\* the bytes of use strict.
UseStrictDirective(t) ==
  /\ t.type = "LEXER_LITERAL"
  /\ t.lit_location.type = "LEXER_STRING_LITERAL"
  /\ Len(t.lit_location.chars) = 10
  /\ ~t.lit_location.has_escape
  /\ t.lit_location.chars = << "u", "s", "e", " ", "s", "t", "r", "i", "c", "t" >>

\* C8: a step sets PARSER_IS_STRICT exactly when it is the step of the
\* directive prologue over a use strict literal that does not start an
\* expression; no other step sets it.
C8_StrictSetByDirective ==
  [][(~Strict /\ Strict') <=>
       /\ ~Strict
       /\ pc = "prologue"
       /\ UseStrictDirective(token)
       /\ pc' # "check"]_vars

C8_Witness ==
  /\ Strict
  /\ pc = "main"
  /\ lang = "prologue"

\* The token after the continue keyword, once the step has read it.
AfterContinue == source'[source_p + 1]

ContinueIdentifier ==
  /\ pc = "main"
  /\ token.type = "LEXER_KEYW_CONTINUE"
  /\ source_p < source_end_p
  /\ AfterContinue.type = "LEXER_LITERAL"
  /\ AfterContinue.lit_location.type = "LEXER_IDENT_LITERAL"
  /\ ~AfterContinue.was_newline

\* A LABEL statement of the name lies under a loop statement with nothing
\* but LABEL statements between the two.
LabelOfLoop(name) ==
  \E i, j \in TagCells :
    /\ i < j
    /\ stack[i].v = PARSER_STATEMENT_LABEL
    /\ stack[i - 2].v.chars = name
    /\ stack[j].v \in LoopTags
    /\ \A k \in TagCells : i < k /\ k < j => stack[k].v = PARSER_STATEMENT_LABEL

\* C9: continue with an identifier files a node when the identifier is the
\* label of a loop and raises PARSER_ERR_INVALID_CONTINUE_LABEL when not.
C9_ContinueLabel ==
  [][ContinueIdentifier =>
       IF LabelOfLoop(AfterContinue.lit_location.chars)
         THEN err' = "none" /\ allocated' # allocated
         ELSE err' = "PARSER_ERR_INVALID_CONTINUE_LABEL"]_vars

C9_Witness ==
  /\ pc = "term"
  /\ source_p >= 3
  /\ source[source_p - 2].type = "LEXER_KEYW_CONTINUE"
  /\ source[source_p - 1].type = "LEXER_LITERAL"
  /\ \E i \in TagCells :
       /\ stack[i].v \in LoopTags
       /\ \E n \in DOMAIN stack[i - 1].v : stack[i - 1].v[n].cont
       /\ \E k \in TagCells :
            /\ k < i
            /\ stack[k].v = PARSER_STATEMENT_LABEL
            /\ stack[k - 2].v.chars = source[source_p - 1].lit_location.chars

\* The position of the end of the body of the loop: the continue point.
BodyEnd ==
  Len(code) + (IF last_cbc_opcode = PARSER_CBC_UNAVAILABLE THEN 0 ELSE 1)

LoopEnds ==
  /\ pc = "close"
  /\ stack_top_uint8 \in LoopTags
  /\ pc' # "error"
  /\ pc' # "close" \/ stack' # stack

\* The continue node of the loop that ends is patched to the end of the
\* body, which in a for-in loop is the place of the has-next branch.
ContinuePatched(n) ==
  /\ Target(code', n.offset) = BodyEnd
  /\ stack_top_uint8 = PARSER_STATEMENT_FOR_IN =>
       code'[BodyEnd + 1].op = "CBC_EXT_BRANCH_IF_FOR_IN_HAS_NEXT"

\* The step emitted no backward branch: the condition of the do-while loop
\* was the constant false.
NoBackwardBranch ==
  /\ stack_top_uint8 = PARSER_STATEMENT_DO_WHILE
  /\ \A k \in (BodyEnd + 1)..Len(code') : ~IsBackwardBranch(code'[k].op)

\* C10, as stated: the end of a loop patches every break node to the position
\* after the backward branch of the loop and every continue node to the end
\* of the body, where the update, the condition or the has-next branch
\* starts.
C10_BreakAfterBackwardBranch ==
  [][LoopEnds =>
       \A i \in DOMAIN stack[Len(stack) - 1].v :
         LET Patched(n) ==
               IF n.cont THEN ContinuePatched(n)
               ELSE /\ Target(code', n.offset) = Len(code')
                    /\ IsBackwardBranch(code'[Len(code')].op)
         IN Patched(stack[Len(stack) - 1].v[i])]_vars

\* C10, amended: every break node is patched to the end of the code of the
\* loop, which is the position after its backward branch unless the loop is a
\* do-while whose condition is the constant false, for which no backward
\* branch is emitted; every continue node is patched to the end of the body.
C10_BreakAndContinueTargets ==
  [][LoopEnds =>
       \A i \in DOMAIN stack[Len(stack) - 1].v :
         LET Patched(n) ==
               IF n.cont THEN ContinuePatched(n)
               ELSE /\ Target(code', n.offset) = Len(code')
                    /\ \/ IsBackwardBranch(code'[Len(code')].op)
                       \/ NoBackwardBranch
         IN Patched(stack[Len(stack) - 1].v[i])]_vars

\* A while loop has ended with a break jump and a continue jump in its
\* body: the continue jump leads where the jump at the entry of the loop
\* leads, to the code of the condition, the break jump past the backward
\* branch.
C10_Witness ==
  /\ lang = "blocks"
  /\ pc \in {"term", "close"}
  /\ stack_top_uint8 = PARSER_STATEMENT_START
  /\ Len(code) >= 4
  /\ IsBackwardBranch(code[Len(code)].op)
  /\ \E e, i, j \in DOMAIN code :
       /\ e < i /\ e < j /\ i # j
       /\ code[e].op = "CBC_JUMP_FORWARD" /\ code[e].patched = 1
       /\ code[i].op = "CBC_JUMP_FORWARD" /\ code[i].patched = 1
       /\ code[j].op = "CBC_JUMP_FORWARD" /\ code[j].patched = 1
       /\ Target(code, i - 1) = Len(code)
       /\ Target(code, j - 1) = Target(code, e - 1)
       /\ Target(code, j - 1) < Len(code)
       /\ Target(code, j - 1) >= i
       /\ Target(code, j - 1) >= j

\* The default labels of the text that the step at the switch keyword read.
DefaultLabels ==
  { i \in (source_p + 1)..Len(source') :
      source'[i].type = "LEXER_KEYW_DEFAULT" }

SwitchStarts == pc = "main" /\ token.type = "LEXER_KEYW_SWITCH"

\* C11: when the pre-pass of a switch statement reaches a second default
\* label it raises PARSER_ERR_MULTIPLE_DEFAULTS_NOT_ALLOWED, and the code
\* emitted until then holds neither the jump to the default label nor any
\* code of the body.
C11_MultipleDefaults ==
  [][SwitchStarts /\ Cardinality(DefaultLabels) >= 2 =>
       /\ err' = "PARSER_ERR_MULTIPLE_DEFAULTS_NOT_ALLOWED"
       /\ pc' = "error"
       /\ SubSeq(code', 1, Len(code)) = code
       /\ \A k \in (Len(code) + 1)..Len(code') :
            code'[k].op # "CBC_JUMP_FORWARD"
       /\ source'[Len(source')].type = "LEXER_KEYW_DEFAULT"]_vars

\* The parse has stopped at the second default label of a switch body.
C11_Witness ==
  /\ pc = "error"
  /\ err = "PARSER_ERR_MULTIPLE_DEFAULTS_NOT_ALLOWED"
  /\ token.type = "LEXER_KEYW_DEFAULT"
  /\ Cardinality({ i \in DOMAIN source :
                     source[i].type = "LEXER_KEYW_DEFAULT" }) = 2

(* --------------------- the scanner, step by step ---------------------- *)

\* The calls of parser_scan_until: lang names the call, pc the mode of the
\* scanner while it runs.
ScanSites ==
  {"while.condition", "for.in", "for.condition", "for.expression",
   "switch.case", "case.colon"}

\* The end_type argument of the call.
ScanEndArgument(site) ==
  CASE site \in {"while.condition", "for.expression"} -> "LEXER_RIGHT_PAREN"
    [] site = "for.in" -> "LEXER_KEYW_IN"
    [] site = "for.condition" -> "LEXER_SEMICOLON"
    [] site = "switch.case" -> "LEXER_KEYW_CASE"
    [] OTHER -> "LEXER_COLON"

\* end_type and end_type_b after the first lines of parser_scan_until.
ScanEndType(site) ==
  IF site = "switch.case" THEN "LEXER_SCAN_SWITCH" ELSE ScanEndArgument(site)

ScanEndTypeB(site) ==
  IF site = "for.in" THEN "LEXER_SEMICOLON" ELSE ScanEndType(site)

ScanModes ==
  {"SCAN_MODE_PRIMARY_EXPRESSION", "SCAN_MODE_PRIMARY_EXPRESSION_AFTER_NEW",
   "SCAN_MODE_POST_PRIMARY_EXPRESSION", "SCAN_MODE_PRIMARY_EXPRESSION_END",
   "SCAN_MODE_STATEMENT", "SCAN_MODE_FUNCTION_ARGUMENTS",
   "SCAN_MODE_PROPERTY_NAME"}

\* The tokens of the scanned texts.  The texts of the update expression of
\* a for statement are those with functions and accessors in them.
ScanVocabulary(site) ==
  IF site = "for.expression"
    THEN { Ident("a") }
           \cup { T(type) :
                    type \in {"LEXER_LEFT_PAREN", "LEXER_RIGHT_PAREN",
                              "LEXER_LEFT_BRACE", "LEXER_RIGHT_BRACE",
                              "LEXER_RIGHT_SQUARE", "LEXER_COMMA",
                              "LEXER_SEMICOLON", "LEXER_COLON",
                              "LEXER_KEYW_FUNCTION",
                              "LEXER_PROPERTY_GETTER"} }
    ELSE { Ident("a") }
           \cup { T(type) :
                    type \in {"LEXER_LEFT_PAREN", "LEXER_RIGHT_PAREN",
                              "LEXER_LEFT_SQUARE", "LEXER_RIGHT_SQUARE",
                              "LEXER_LEFT_BRACE", "LEXER_RIGHT_BRACE",
                              "LEXER_SEMICOLON", "LEXER_COLON", "LEXER_COMMA",
                              "LEXER_QUESTION_MARK", "LEXER_KEYW_IN",
                              "LEXER_KEYW_VAR", "LEXER_KEYW_CASE",
                              "LEXER_KEYW_DEFAULT", "LEXER_KEYW_IF"} }

ScanWords == ScanVocabulary(lang)

\* The length of the scanned texts.
ScanLength(site) ==
  IF site = "for.expression" THEN MaxScanFunction ELSE MaxScan

\* A step of the scanner with the text it reads: Do(f) is the step on the
\* text f, a record of the context c and the next pc. The text is as long as
\* the step reads, four tokens at most.
ScanRead(Do(_)) ==
  LET Found(r) == r.c.err # "SOURCE_TEXT_MISSING"
      Take(r) == Commit(r.c, r.pc, FALSE)
  IN IF Found(Do(<< >>)) THEN Take(Do(<< >>))
     ELSE \E t1 \in ScanWords :
            IF Found(Do(<< t1 >>)) THEN Take(Do(<< t1 >>))
            ELSE \E t2 \in ScanWords :
                   IF Found(Do(<< t1, t2 >>)) THEN Take(Do(<< t1, t2 >>))
                   ELSE \E t3 \in ScanWords :
                          IF Found(Do(<< t1, t2, t3 >>))
                            THEN Take(Do(<< t1, t2, t3 >>))
                            ELSE \E t4 \in ScanWords :
                                   /\ Found(Do(<< t1, t2, t3, t4 >>))
                                   /\ Take(Do(<< t1, t2, t3, t4 >>))

\* The token that is current when the call is made.
ScanEntryTokens(site) ==
  CASE site \in {"while.condition", "for.in"} -> { T("LEXER_LEFT_PAREN") }
    [] site \in {"for.condition", "for.expression"} -> { T("LEXER_SEMICOLON") }
    [] site = "case.colon" -> { T("LEXER_KEYW_CASE") }
    [] OTHER -> ScanVocabulary(site)

\* The statement stack, the code and the cached opcode when the call is made.
ScanEntryStack(site) ==
  IF site \in {"switch.case", "case.colon"}
    THEN << U8(PARSER_STATEMENT_START) >>
           \o SwitchCells([default_branch |-> NullBranch,
                           branch_list_p |-> << >>])
           \o LoopCells([branch_list_p |-> << >>])
           \o << U8(PARSER_STATEMENT_SWITCH) >>
    ELSE << U8(PARSER_STATEMENT_START) >>

ScanEntryCode(site) ==
  IF site \in {"while.condition", "for.condition", "for.expression"}
    THEN << Instr("CBC_JUMP_FORWARD", 0) >>
    ELSE << >>

ScanEntryOpcode(site) ==
  IF site = "switch.case" THEN "CBC_PUSH_IDENT" ELSE PARSER_CBC_UNAVAILABLE

ScanInit ==
  \E site \in ScanSites :
    \E t \in ScanEntryTokens(site) :
      /\ lang = site
      /\ source = << t >>
      /\ token = t
      /\ source_p = 1
      /\ source_end_p = 1 + ScanLength(site)
      /\ status_flags = {}
      /\ stack = ScanEntryStack(site)
      /\ stack_top_uint8 = TopByte(ScanEntryStack(site))
      /\ last_statement = Len(ScanEntryStack(site))
      /\ code = ScanEntryCode(site)
      /\ last_cbc_opcode = ScanEntryOpcode(site)
      /\ stack_depth = 0
      /\ context_stack_depth = 0
      /\ allocated = {}
      /\ heap_fault = FALSE
      /\ vm = NoVm
      /\ scan_range = NoRange
      /\ err = "none"
      /\ pc = "scan"
      /\ statement_terminator_required = FALSE

\* The entry of the scan with the cached opcode written out first.
ScanEnter_flush ==
  /\ pc = "scan"
  /\ LET First(d) ==
            IF lang = "switch.case" THEN d ELSE lexer_next_token(d)
          Do(f) ==
            [c |-> parser_stack_push_uint8(parser_flush_cbc(First(Run(f))),
                                           SCAN_STACK_HEAD),
             pc |-> IF lang = "switch.case" THEN "SCAN_MODE_STATEMENT"
                    ELSE "SCAN_MODE_PRIMARY_EXPRESSION"]
     IN ScanRead(Do)

\* parser_scan_until up to its loop: the first token, the var of a for-in
\* head, the push of HEAD.
ScanEnter ==
  /\ pc = "scan"
  /\ LET SkipVar(n) ==
            IF /\ lang = "for.in" /\ Ok(n)
               /\ n.token.type = "LEXER_KEYW_VAR"
              THEN lexer_next_token(n) ELSE n
          First(d) ==
            IF lang = "switch.case" THEN d ELSE SkipVar(lexer_next_token(d))
          Entry(d) ==
            [d EXCEPT !.range = [source_p |-> d.sp, source_end_p |-> d.sp]]
          Do(f) ==
            [c |-> parser_stack_push_uint8(First(Entry(Run(f))),
                                           SCAN_STACK_HEAD),
             pc |-> IF lang = "switch.case" THEN "SCAN_MODE_STATEMENT"
                    ELSE "SCAN_MODE_PRIMARY_EXPRESSION"]
     IN ScanRead(Do)

\* The head of the loop finds the end of the source.
ScanEos ==
  /\ pc \in ScanModes
  /\ token.type = "LEXER_EOS"
  /\ Commit(parser_raise_error(Cx, "PARSER_ERR_EXPRESSION_EXPECTED"), pc, FALSE)

\* The return on the terminator whatever symbol is on top.
ScanReturn_anysymbol ==
  /\ pc \in ScanModes
  /\ token.type # "LEXER_EOS"
  /\ token.type \in {ScanEndType(lang), ScanEndTypeB(lang)}
  /\ Commit(parser_stack_pop_uint8(Cx), "returned", FALSE)

\* The head of the loop finds the terminator on HEAD.
ScanReturn ==
  /\ pc \in ScanModes
  /\ token.type # "LEXER_EOS"
  /\ stack_top_uint8 = SCAN_STACK_HEAD
  /\ token.type \in {ScanEndType(lang), ScanEndTypeB(lang)}
  /\ Commit(parser_stack_pop_uint8(Cx), "returned", FALSE)

\* One turn of the loop where the end of the range is set after the next
\* token is read.
ScanTurn_late ==
  /\ pc \in ScanModes
  /\ token.type # "LEXER_EOS"
  /\ ~(/\ stack_top_uint8 = SCAN_STACK_HEAD
       /\ token.type \in {ScanEndType(lang), ScanEndTypeB(lang)})
  /\ LET End(d) ==
            IF Ok(d) THEN [d EXCEPT !.range.source_end_p = d.sp] ELSE d
          After(step) ==
            [c |-> IF step.r THEN step.c ELSE End(lexer_next_token(step.c)),
             pc |-> IF step.mode = "SCAN_RETURN" THEN "returned"
                    ELSE step.mode]
          Do(f) == After(ScanStep(Run(f), pc, ScanEndType(lang)))
     IN ScanRead(Do)

\* One turn of the loop in the mode pc.
ScanTurn ==
  /\ pc \in ScanModes
  /\ token.type # "LEXER_EOS"
  /\ ~(/\ stack_top_uint8 = SCAN_STACK_HEAD
       /\ token.type \in {ScanEndType(lang), ScanEndTypeB(lang)})
  /\ LET End(d) ==
            IF Ok(d) THEN [d EXCEPT !.range.source_end_p = d.sp] ELSE d
          After(step) ==
            [c |-> IF step.r THEN step.c ELSE lexer_next_token(End(step.c)),
             pc |-> IF step.mode = "SCAN_RETURN" THEN "returned"
                    ELSE step.mode]
          Do(f) == After(ScanStep(Run(f), pc, ScanEndType(lang)))
     IN ScanRead(Do)

ScanNext == ScanEnter \/ ScanEos \/ ScanReturn \/ ScanTurn

ScanSpec == ScanInit /\ [][ScanNext]_vars

\* The tokens that end the scan of a call; the scan of a switch body ends
\* in statement mode only.
ScanTerminators(site) ==
  CASE site \in {"while.condition", "for.expression"} -> {"LEXER_RIGHT_PAREN"}
    [] site = "for.in" -> {"LEXER_KEYW_IN", "LEXER_SEMICOLON"}
    [] site = "for.condition" -> {"LEXER_SEMICOLON"}
    [] site = "case.colon" -> {"LEXER_COLON"}
    [] OTHER -> {"LEXER_KEYW_CASE", "LEXER_KEYW_DEFAULT", "LEXER_RIGHT_BRACE"}

C13_ScanLeavesNoTrace ==
  pc = "returned" =>
    /\ code = ScanEntryCode(lang)
    /\ last_cbc_opcode = ScanEntryOpcode(lang)
    /\ stack = ScanEntryStack(lang)
    /\ stack_top_uint8 = stack[Len(stack)].v

\* The scan of a switch body has returned after a block that it opened and
\* closed, with the opcode of the switch expression still cached.
C13_Witness ==
  /\ pc = "returned"
  /\ lang = "switch.case"
  /\ last_cbc_opcode = "CBC_PUSH_IDENT"
  /\ \E i \in 1..(source_p - 1) :
       /\ source[i].type = "LEXER_LEFT_BRACE"
       /\ \E j \in (i + 1)..(source_p - 1) : source[j].type = "LEXER_RIGHT_BRACE"

\* The fields of the TRY frame on top of the statement stack.
TryPhase(s) == s[Len(s) - 2].v

TryBranch(s) == s[Len(s) - 1].v

\* The step at the right brace that closes a block of a try statement.
TryBlockCloses ==
  /\ pc = "term"
  /\ statement_terminator_required
  /\ token.type = "LEXER_RIGHT_BRACE"
  /\ stack_top_uint8 = PARSER_STATEMENT_TRY

\* The block is the catch block, finally follows and its block opens.
CatchThenFinally ==
  /\ TryBlockCloses
  /\ TryPhase(stack) = "parser_catch_block"
  /\ Len(source') > source_p
  /\ source'[source_p + 1].type = "LEXER_KEYW_FINALLY"
  /\ pc' # "error"

\* C14, as stated: at the end of a catch block that finally follows the
\* parser emits CBC_CONTEXT_END, then CBC_EXT_FINALLY, and the phase of the
\* frame becomes parser_finally_block.
C14_ContextEndBeforeFinally ==
  [][CatchThenFinally =>
       /\ \E i \in (Len(code) + 1)..(Len(code') - 1) :
            code'[i].op = "CBC_CONTEXT_END"
       /\ code'[Len(code')].op = "CBC_EXT_FINALLY"
       /\ TryPhase(stack') = "parser_finally_block"]_vars

\* C14, amended: at the end of a catch block that finally follows the parser
\* patches the branch of CBC_EXT_CATCH to the place of the CBC_EXT_FINALLY it
\* emits next, emits no CBC_CONTEXT_END and leaves the depths alone; the
\* frame stays, its phase becomes parser_finally_block and its branch that of
\* CBC_EXT_FINALLY.
C14_CatchThenFinally ==
  [][CatchThenFinally =>
       /\ code'[Len(code')].op = "CBC_EXT_FINALLY"
       /\ last_cbc_opcode' = PARSER_CBC_UNAVAILABLE
       /\ \A i \in (Len(code) + 1)..Len(code') :
            code'[i].op # "CBC_CONTEXT_END"
       /\ code[TryBranch(stack).offset + 1].op = "CBC_EXT_CATCH"
       /\ code'[TryBranch(stack).offset + 1].patched = 1
       /\ Target(code', TryBranch(stack).offset) = Len(code') - 1
       /\ stack_depth' = stack_depth
       /\ context_stack_depth' = context_stack_depth
       /\ stack_top_uint8' = PARSER_STATEMENT_TRY
       /\ Len(stack') = Len(stack)
       /\ TryPhase(stack') = "parser_finally_block"
       /\ TryBranch(stack').offset = Len(code') - 1]_vars

\* A finally block has opened after a catch block: the code ends with
\* CBC_EXT_FINALLY, which is where the patched CBC_EXT_CATCH leads.
C14_Witness ==
  /\ stack_top_uint8 = PARSER_STATEMENT_TRY
  /\ TryPhase(stack) = "parser_finally_block"
  /\ Len(code) >= 2
  /\ code[Len(code)].op = "CBC_EXT_FINALLY"
  /\ \E i \in DOMAIN code :
       /\ code[i].op = "CBC_EXT_CATCH"
       /\ code[i].patched = 1
       /\ Target(code, i - 1) = Len(code) - 1

\* The type of the token after the current one, LEXER_EOS at the end.
NextType ==
  IF Len(source') > source_p THEN source'[source_p + 1].type ELSE "LEXER_EOS"

\* The TRY frames of a stack: the places of their tags.
TryFrames(s) ==
  { i \in DOMAIN s : s[i].k = "u8" /\ s[i].v = PARSER_STATEMENT_TRY }

PhaseAt(s, i) == s[i - 2].v

\* C15: the phase of a TRY frame starts as parser_try_block and only moves
\* from there to parser_catch_block or parser_finally_block and from
\* parser_catch_block to parser_finally_block; a try block that neither catch
\* nor finally follows raises PARSER_ERR_CATCH_FINALLY_EXPECTED; a catch block
\* that another catch follows ends the statement: its frame is popped and no
\* CBC_EXT_CATCH is emitted for the second catch.
C15_TryPhases ==
  [][/\ \A i \in TryFrames(stack') :
          IF i \in TryFrames(stack)
            THEN << PhaseAt(stack, i), PhaseAt(stack', i) >> \in
                   { << "parser_try_block", "parser_try_block" >>,
                     << "parser_catch_block", "parser_catch_block" >>,
                     << "parser_finally_block", "parser_finally_block" >>,
                     << "parser_try_block", "parser_catch_block" >>,
                     << "parser_try_block", "parser_finally_block" >>,
                     << "parser_catch_block", "parser_finally_block" >> }
            ELSE PhaseAt(stack', i) = "parser_try_block"
     /\ TryBlockCloses /\ TryPhase(stack) = "parser_try_block"
                       /\ NextType \notin {"LEXER_KEYW_CATCH", "LEXER_KEYW_FINALLY"}
          => err' = "PARSER_ERR_CATCH_FINALLY_EXPECTED"
     /\ TryBlockCloses /\ TryPhase(stack) = "parser_catch_block"
                       /\ NextType = "LEXER_KEYW_CATCH"
          => /\ err' = "none"
             /\ stack' = SubSeq(stack, 1, Len(stack) - 3)
             /\ token'.type = "LEXER_KEYW_CATCH"
             /\ \A k \in (Len(code) + 1)..Len(code') :
                  code'[k].op # "CBC_EXT_CATCH"]_vars

\* A catch block has closed in front of another catch: the statement is
\* over, the frame is gone and the catch keyword is the current token.
C15_Witness ==
  /\ pc = "close"
  /\ token.type = "LEXER_KEYW_CATCH"
  /\ stack_top_uint8 = PARSER_STATEMENT_START
  /\ Len(code) >= 2
  /\ code[Len(code)].op = "CBC_CONTEXT_END"
  /\ \E i \in DOMAIN code : code[i].op = "CBC_EXT_CATCH" /\ code[i].patched = 1

\* How often the opcode is in the code, the cached opcode counted.
Emitted(op) ==
  Cardinality({ i \in DOMAIN code : code[i].op = op })
    + (IF last_cbc_opcode = op THEN 1 ELSE 0)

\* C16: every try statement gets one CBC_CONTEXT_END, emitted when its frame
\* is popped, and the depths go down by PARSER_TRY_CONTEXT_STACK_ALLOCATION
\* then: at any time the statements that were opened are those that have
\* their CBC_CONTEXT_END and those that still have their frame, and the
\* depths are the allocation of the frames that are left; after a parse that
\* succeeded none is left.
C16_OneContextEndPerTry ==
  lang = "try" /\ pc \notin {"error", "freed"} =>
    /\ Emitted("CBC_EXT_TRY_CREATE_CONTEXT")
         = Emitted("CBC_CONTEXT_END") + Cardinality(TryFrames(stack))
    /\ context_stack_depth
         = PARSER_TRY_CONTEXT_STACK_ALLOCATION * Cardinality(TryFrames(stack))
    /\ pc \in {"main", "done"} => stack_depth = context_stack_depth
    /\ pc = "done" =>
         /\ TryFrames(stack) = {}
         /\ Emitted("CBC_CONTEXT_END") = Emitted("CBC_EXT_TRY_CREATE_CONTEXT")

\* A try statement with a catch and a finally block has been parsed to its
\* end: one CBC_CONTEXT_END, no frame and no depth left.
C16_Witness ==
  /\ lang = "try"
  /\ pc = "done"
  /\ Emitted("CBC_EXT_TRY_CREATE_CONTEXT") = 1
  /\ Emitted("CBC_EXT_CATCH") = 1
  /\ Emitted("CBC_EXT_FINALLY") = 1
  /\ Emitted("CBC_CONTEXT_END") = 1
  /\ stack_depth = 0
  /\ context_stack_depth = 0

\* The case labels of the text that the step at the switch keyword read,
\* and the branches that the step emitted for them.
CaseLabels ==
  { i \in (source_p + 1)..Len(source') : source'[i].type = "LEXER_KEYW_CASE" }

CaseBranches ==
  { k \in (Len(code) + 1)..Len(code') :
      code'[k].op \in {"CBC_BRANCH_IF_STRICT_EQUAL",
                       "CBC_BRANCH_IF_TRUE_FORWARD"} }

\* The pre-pass of the step went through the body of the switch.
PrePassDone ==
  /\ SwitchStarts
  /\ pc' # "error"
  /\ stack_top_uint8' \in {PARSER_STATEMENT_SWITCH,
                           PARSER_STATEMENT_SWITCH_NO_DEFAULT}

SwitchOnTop ==
  stack_top_uint8 \in {PARSER_STATEMENT_SWITCH, PARSER_STATEMENT_SWITCH_NO_DEFAULT}

DefaultJump == stack[Len(stack) - 3].v.offset + 1

\* C18: the default jump of a switch is patched once: by the default label
\* when the tag is SWITCH, and then the closing brace leaves it alone; by the
\* closing brace when the tag is SWITCH_NO_DEFAULT. No other step of the
\* body touches it.
C18_DefaultJumpPatchedOnce ==
  [][SwitchOnTop /\ pc \in {"main", "term", "close"} /\ pc' # "error" =>
       /\ code[DefaultJump].op = "CBC_JUMP_FORWARD"
       /\ IF pc = "main" /\ token.type = "LEXER_KEYW_DEFAULT"
            THEN /\ stack_top_uint8 = PARSER_STATEMENT_SWITCH
                 /\ code[DefaultJump].patched = 0
                 /\ code'[DefaultJump].patched = 1
                 /\ Target(code', DefaultJump - 1) = Len(code')
                 /\ stack' = stack
          ELSE IF pc = "term" /\ token.type = "LEXER_RIGHT_BRACE"
            THEN /\ Len(stack') = Len(stack) - 4
                 /\ IF stack_top_uint8 = PARSER_STATEMENT_SWITCH
                      THEN /\ code[DefaultJump].patched = 1
                           /\ code'[DefaultJump] = code[DefaultJump]
                      ELSE /\ code[DefaultJump].patched = 0
                           /\ code'[DefaultJump].patched = 1
                           /\ Target(code', DefaultJump - 1) = Len(code')
          ELSE code'[DefaultJump] = code[DefaultJump]]_vars

\* The default label of a switch body has been passed and a case label
\* follows it: the default jump is patched, its frame is still there.
C18_Witness ==
  /\ pc = "main"
  /\ stack_top_uint8 = PARSER_STATEMENT_SWITCH
  /\ token.type = "LEXER_KEYW_CASE"
  /\ code[DefaultJump].op = "CBC_JUMP_FORWARD"
  /\ code[DefaultJump].patched = 1

\* The branch that the IF or ELSE frame with its tag at i keeps: its place
\* in the code.
FrameBranch(i) == stack[i - 1].v.offset + 1

\* The step of the close switch on the frame on top of the stack.
FrameEnds(type) == pc = "close" /\ stack_top_uint8 = type

\* C19: at the end of a then-branch with else as current token the parser
\* emits CBC_JUMP_FORWARD, patches the CBC_BRANCH_IF_FALSE_FORWARD of the
\* frame to the position after that jump, keeps the jump in the frame and
\* makes the tag ELSE; without else it patches the branch to the current
\* position and pops the frame. The end of the else-branch patches the jump
\* and pops the frame. No other step patches the branch of an IF or ELSE
\* frame, and no branch is patched twice.
C19_IfElseBranches ==
  [][/\ FrameEnds(PARSER_STATEMENT_IF) /\ pc' # "error" =>
          /\ code[FrameBranch(Len(stack))].op = "CBC_BRANCH_IF_FALSE_FORWARD"
          /\ code[FrameBranch(Len(stack))].patched = 0
          /\ code'[FrameBranch(Len(stack))].patched = 1
          /\ Target(code', FrameBranch(Len(stack)) - 1) = Len(code')
          /\ IF token.type = "LEXER_KEYW_ELSE"
               THEN /\ Len(code') = Len(code) + 1
                    /\ code'[Len(code')] = Instr("CBC_JUMP_FORWARD", 0)
                    /\ Len(stack') = Len(stack)
                    /\ stack_top_uint8' = PARSER_STATEMENT_ELSE
                    /\ stack'[Len(stack')] = U8(PARSER_STATEMENT_ELSE)
                    /\ stack'[Len(stack') - 1].v.offset = Len(code') - 1
                    /\ token'.type = NextType
               ELSE /\ Len(code') = Len(code)
                    /\ stack' = SubSeq(stack, 1, Len(stack) - 2)
                    /\ token' = token
     /\ FrameEnds(PARSER_STATEMENT_ELSE) /\ pc' # "error" =>
          /\ code[FrameBranch(Len(stack))].op = "CBC_JUMP_FORWARD"
          /\ code[FrameBranch(Len(stack))].patched = 0
          /\ code'[FrameBranch(Len(stack))].patched = 1
          /\ Target(code', FrameBranch(Len(stack)) - 1) = Len(code')
          /\ Len(code') = Len(code)
          /\ stack' = SubSeq(stack, 1, Len(stack) - 2)
     /\ \A i \in TagCells :
          /\ stack[i].v \in {PARSER_STATEMENT_IF, PARSER_STATEMENT_ELSE}
          /\ ~(i = Len(stack) /\ pc = "close")
          /\ pc \in {"main", "term", "close"}
          => code'[FrameBranch(i)] = code[FrameBranch(i)]
     /\ \A k \in DOMAIN code' :
          code'[k].op = "CBC_BRANCH_IF_FALSE_FORWARD" => code'[k].patched <= 1]_vars

\* An else-branch has begun: the jump over it ends the code, unpatched and
\* kept by the ELSE frame, and the branch of the condition leads behind it.
C19_Witness ==
  /\ pc = "main"
  /\ stack_top_uint8 = PARSER_STATEMENT_ELSE
  /\ Len(code) >= 2
  /\ code[Len(code)] = Instr("CBC_JUMP_FORWARD", 0)
  /\ FrameBranch(Len(stack)) = Len(code)
  /\ \E k \in DOMAIN code :
       /\ code[k].op = "CBC_BRANCH_IF_FALSE_FORWARD"
       /\ code[k].patched = 1
       /\ Target(code, k - 1) = Len(code)

\* The frames that hold a context of the virtual machine.
ContextTags ==
  {PARSER_STATEMENT_FOR_IN, PARSER_STATEMENT_WITH, PARSER_STATEMENT_TRY}

\* A break or continue statement that finds its target.
JumpStatement ==
  /\ pc = "main"
  /\ token.type \in {"LEXER_KEYW_BREAK", "LEXER_KEYW_CONTINUE"}
  /\ pc' # "error"

\* The tag of the target frame: the frame that holds the list the statement
\* put its branch node in.
TargetTag ==
  LET n == CHOOSE i \in DOMAIN stack : stack'[i] # stack[i]
  IN CHOOSE j \in TagCells : j >= n /\ \A i \in TagCells : i >= n => j <= i

\* The jump of the statement ends the code.
JumpOpcode == code'[Len(code')].op

\* C20: break or continue emits CBC_JUMP_FORWARD_EXIT_CONTEXT if and only if
\* a FOR_IN, WITH or TRY frame lies strictly between the statement and its
\* target frame on the statement stack, and CBC_JUMP_FORWARD otherwise.
C20_ExitContextIffFrameBetween ==
  [][JumpStatement =>
       /\ JumpOpcode \in {"CBC_JUMP_FORWARD", "CBC_JUMP_FORWARD_EXIT_CONTEXT"}
       /\ JumpOpcode = "CBC_JUMP_FORWARD_EXIT_CONTEXT"
            <=> \E i \in TagCells : i > TargetTag /\ stack[i].v \in ContextTags]_vars

\* C20 as the code has it: break or continue emits
\* CBC_JUMP_FORWARD_EXIT_CONTEXT if and only if a FOR_IN, WITH or TRY frame
\* lies strictly between the statement and its target frame, or the
\* statement is a break whose target frame is a FOR_IN frame itself; it
\* emits CBC_JUMP_FORWARD otherwise, and one instruction in either case.
C20_ExitContextJumps ==
  [][JumpStatement =>
       /\ Len(stack') = Len(stack)
       /\ Cardinality({ i \in DOMAIN stack : stack'[i] # stack[i] }) = 1
       /\ Len(code') = Len(code) + 1
       /\ JumpOpcode \in {"CBC_JUMP_FORWARD", "CBC_JUMP_FORWARD_EXIT_CONTEXT"}
       /\ JumpOpcode = "CBC_JUMP_FORWARD_EXIT_CONTEXT"
            <=> \E i \in TagCells :
                  /\ stack[i].v \in ContextTags
                  /\ \/ i > TargetTag
                     \/ i = TargetTag /\ token.type = "LEXER_KEYW_BREAK"]_vars

\* A jump out of a with or try statement to a loop below it has been
\* emitted: it leaves the context, and its node is in the list of the loop.
C20_Witness ==
  /\ lang = "exits"
  /\ pc = "term"
  /\ stack_top_uint8 \in {PARSER_STATEMENT_WITH, PARSER_STATEMENT_TRY}
  /\ Len(code) >= 1
  /\ code[Len(code)].op = "CBC_JUMP_FORWARD_EXIT_CONTEXT"
  /\ code[Len(code)].patched = 0
  /\ \E i \in TagCells :
       /\ stack[i].v \in LoopTags
       /\ LoopOf(<< stack[i - 1] >>).branch_list_p # << >>

\* The token after the current one, the end of the source if there is none.
NextToken ==
  IF Len(source') > source_p THEN source'[source_p + 1] ELSE EosTok(FALSE)

\* break or continue is followed by an identifier on its line.
Labelled == IsIdent(NextToken) /\ ~NextToken.was_newline

\* The frames break without an identifier stops at.
BreakFrames ==
  { i \in TagCells :
      stack[i].v \in LoopTags \cup {PARSER_STATEMENT_SWITCH,
                                    PARSER_STATEMENT_SWITCH_NO_DEFAULT} }

LoopFrames == { i \in TagCells : stack[i].v \in LoopTags }

\* The LABEL frames that have the name of the identifier.
LabelFrames(ident) ==
  { i \in TagCells :
      /\ stack[i].v = PARSER_STATEMENT_LABEL
      /\ lexer_same_identifiers(stack[i - 2].v, ident) }

Innermost(frames) == CHOOSE i \in frames : \A j \in frames : j <= i

\* The step put the node of its jump, the last instruction of the code, at
\* the head of the list of the frame, and left the rest of the stack alone.
Filed(i, cont) ==
  /\ pc' = "term"
  /\ Len(stack') = Len(stack)
  /\ \A n \in DOMAIN stack : n # i - 1 => stack'[n] = stack[n]
  /\ stack'[i - 1].k = stack[i - 1].k
  /\ stack'[i - 1].v
       = << Node([offset |-> Len(code') - 1], cont) >> \o stack[i - 1].v
  /\ allocated' = allocated \cup {Len(code') - 1}
  /\ Len(code') - 1 \notin allocated

\* The step filed its node in the innermost of the frames, or failed with
\* the error when there is none.
FiledOrFailed(frames, cont, error) ==
  IF frames = {} THEN pc' = "error" /\ err' = error
  ELSE Filed(Innermost(frames), cont)

\* C21: break without an identifier files its node in the innermost switch
\* or loop frame, break with an identifier in the LABEL frame of that name,
\* continue without an identifier in the innermost loop frame, switch
\* frames skipped; with no such frame above START the parse fails with
\* INVALID_BREAK, INVALID_BREAK_LABEL or INVALID_CONTINUE.
C21_JumpTargets ==
  [][/\ pc = "main" /\ token.type = "LEXER_KEYW_BREAK" =>
          IF Labelled
            THEN FiledOrFailed(LabelFrames(NextToken.lit_location), FALSE,
                               "PARSER_ERR_INVALID_BREAK_LABEL")
            ELSE FiledOrFailed(BreakFrames, FALSE, "PARSER_ERR_INVALID_BREAK")
     /\ pc = "main" /\ token.type = "LEXER_KEYW_CONTINUE" /\ ~Labelled =>
          FiledOrFailed(LoopFrames, TRUE, "PARSER_ERR_INVALID_CONTINUE")]_vars

\* A continue in a switch statement in a loop has been parsed: its node is
\* in the list of the loop, and the list of the switch statement is empty.
C21_Witness ==
  /\ pc = "term"
  /\ stack_top_uint8 \in {PARSER_STATEMENT_SWITCH, PARSER_STATEMENT_SWITCH_NO_DEFAULT}
  /\ stack[Len(stack) - 1].v = << >>
  /\ Len(code) >= 1
  /\ code[Len(code)].op = "CBC_JUMP_FORWARD"
  /\ \E i \in TagCells :
       /\ stack[i].v = PARSER_STATEMENT_DO_WHILE
       /\ stack[i - 1].v = << Node([offset |-> Len(code) - 1], TRUE) >>

\* The tags of the LABEL frames on the stack.
LabelTags == { i \in TagCells : stack[i].v = PARSER_STATEMENT_LABEL }

\* The names of the LABEL frames are pairwise distinct.
LabelsDistinct ==
  \A i, j \in LabelTags :
    i # j => ~lexer_same_identifiers(stack[i - 2].v, stack[j - 2].v)

\* An identifier followed by a colon is parsed at statement position.
LabelStatement ==
  /\ pc = "main"
  /\ IsIdent(token)
  /\ NextToken.type = "LEXER_COLON"

\* C22: a label whose name is that of a LABEL frame on the statement stack
\* raises PARSER_ERR_DUPLICATED_LABEL; otherwise a LABEL frame with that name
\* and an empty break list is pushed; the names of the LABEL frames on the
\* stack are always pairwise distinct.
C22_LabelsUnique ==
  /\ []LabelsDistinct
  /\ [][LabelStatement =>
          IF LabelFrames(token.lit_location) # {}
            THEN /\ pc' = "error"
                 /\ err' = "PARSER_ERR_DUPLICATED_LABEL"
                 /\ stack' = stack
            ELSE /\ pc' = "main"
                 /\ stack' = stack \o LabelCells([label_ident |-> token.lit_location,
                                                   break_list_p |-> << >>])
                                   \o << U8(PARSER_STATEMENT_LABEL) >>
                 /\ last_statement' = Len(stack')
                 /\ code' = code]_vars

\* A label was refused for the name of a LABEL frame that lies under the
\* frame of another statement.
C22_Witness ==
  /\ pc = "error"
  /\ err = "PARSER_ERR_DUPLICATED_LABEL"
  /\ token.type = "LEXER_COLON"
  /\ stack_top_uint8 # PARSER_STATEMENT_LABEL
  /\ Cardinality(LabelTags) = 2
  /\ \E i \in LabelTags :
       lexer_same_identifiers(stack[i - 2].v, source[source_p - 1].lit_location)

\* The statements that a right brace does not end.
BraceRefused ==
  {PARSER_STATEMENT_LABEL, PARSER_STATEMENT_IF, PARSER_STATEMENT_ELSE,
   PARSER_STATEMENT_DO_WHILE, PARSER_STATEMENT_WHILE, PARSER_STATEMENT_FOR,
   PARSER_STATEMENT_FOR_IN, PARSER_STATEMENT_WITH}

\* The parser is at a right brace between two steps of the statement loop.
AtRightBrace ==
  /\ pc \in {"main", "term", "close"}
  /\ token.type = "LEXER_RIGHT_BRACE"

\* The step read over the right brace, or returned at it.
BraceTaken == pc' # "error" /\ (source_p' # source_p \/ pc' = "done")

\* The frame on top that the right brace closes, and what is left of it.
BraceCloses ==
  CASE stack_top_uint8 = PARSER_STATEMENT_BLOCK ->
         stack' = SubSeq(stack, 1, Len(stack) - 1)
    [] stack_top_uint8 \in {PARSER_STATEMENT_SWITCH,
                            PARSER_STATEMENT_SWITCH_NO_DEFAULT} ->
         stack' = SubSeq(stack, 1, Len(stack) - 4)
    [] stack_top_uint8 = PARSER_STATEMENT_TRY ->
         \/ stack' = SubSeq(stack, 1, Len(stack) - 3)
         \/ /\ Len(stack') = Len(stack)
            /\ stack'[Len(stack)] = stack[Len(stack)]
            /\ TryPhase(stack') # TryPhase(stack)
            /\ SubSeq(stack', 1, Len(stack) - 3) = SubSeq(stack, 1, Len(stack) - 3)
    [] stack_top_uint8 = PARSER_STATEMENT_START ->
         /\ "PARSER_IS_CLOSURE" \in status_flags
         /\ pc' = "done"
         /\ stack' = << >>
    [] OTHER -> FALSE

\* C23: a right brace at statement position while LABEL, IF, ELSE, DO_WHILE,
\* WHILE, FOR, FOR_IN or WITH is on top of the statement stack raises
\* PARSER_ERR_STATEMENT_EXPECTED; a right brace is read over only where it
\* closes a BLOCK, a SWITCH or SWITCH_NO_DEFAULT, a phase of a TRY, or the
\* body of a function.
C23_RightBrace ==
  [][/\ AtRightBrace /\ pc = "main" /\ stack_top_uint8 \in BraceRefused =>
          /\ pc' = "error"
          /\ err' = "PARSER_ERR_STATEMENT_EXPECTED"
          /\ stack' = stack
     /\ AtRightBrace /\ BraceTaken =>
          /\ pc = "term"
          /\ BraceCloses]_vars

\* The right brace after the head of a for-in statement was refused.
C23_Witness ==
  /\ pc = "error"
  /\ err = "PARSER_ERR_STATEMENT_EXPECTED"
  /\ token.type = "LEXER_RIGHT_BRACE"
  /\ source[source_p] = token
  /\ stack_top_uint8 = PARSER_STATEMENT_FOR_IN
  /\ last_statement = Len(stack)

\* The token that a statement may end with, or that a newline comes before.
EndsStatement ==
  \/ token.type \in {"LEXER_SEMICOLON", "LEXER_RIGHT_BRACE", "LEXER_EOS"}
  \/ token.was_newline

\* C24 as stated: after a statement that requires a terminator the parse
\* continues if the next token is a semicolon, a right brace, the end of the
\* source or a token after a newline, and any other token raises
\* PARSER_ERR_SEMICOLON_EXPECTED.
C24_ParseContinues ==
  [][AtTerminator =>
       IF EndsStatement THEN pc' # "error"
       ELSE pc' = "error" /\ err' = "PARSER_ERR_SEMICOLON_EXPECTED"]_vars

\* C24 as the code has it: after a statement that requires a terminator a
\* semicolon is read over, and the end of the source or a token after a
\* newline is left where it is, and the parse continues; a right brace is
\* handed to the frame on top of the stack, where it raises
\* PARSER_ERR_INVALID_RIGHT_SQUARE with START on top outside a function body
\* and may fail the end of a try block, and continues otherwise; any other
\* token raises PARSER_ERR_SEMICOLON_EXPECTED, and no token of the four does.
C24_Terminator ==
  [][AtTerminator =>
       CASE token.type = "LEXER_SEMICOLON" ->
              /\ pc' = "close"
              /\ token'.type = NextType
              /\ stack' = stack /\ code' = code
         [] token.type = "LEXER_RIGHT_BRACE" ->
              /\ err' # "PARSER_ERR_SEMICOLON_EXPECTED"
              /\ pc' = "error" =>
                   \/ stack_top_uint8 = PARSER_STATEMENT_TRY
                   \/ /\ stack_top_uint8 = PARSER_STATEMENT_START
                      /\ err' = "PARSER_ERR_INVALID_RIGHT_SQUARE"
              /\ /\ stack_top_uint8 = PARSER_STATEMENT_START
                 /\ "PARSER_IS_CLOSURE" \notin status_flags
                 => pc' = "error"
         [] token.type \notin {"LEXER_SEMICOLON", "LEXER_RIGHT_BRACE"}
              /\ EndsStatement ->
              /\ pc' = "close"
              /\ token' = token
              /\ stack' = stack /\ code' = code
         [] OTHER ->
              /\ pc' = "error"
              /\ err' = "PARSER_ERR_SEMICOLON_EXPECTED"
              /\ stack' = stack]_vars

\* A token after a newline was taken for the end of the statement before it.
C24_Witness ==
  /\ pc = "close"
  /\ ~statement_terminator_required
  /\ token.was_newline
  /\ token.type \notin {"LEXER_SEMICOLON", "LEXER_RIGHT_BRACE", "LEXER_EOS"}
  /\ source_p >= 2
  /\ source[source_p] = token
  /\ source[source_p - 1].type # "LEXER_SEMICOLON"

\* The field of the innermost frame that has it.
TopField(name) ==
  LET i == CHOOSE i \in DOMAIN stack :
             stack[i].k = name /\ \A j \in DOMAIN stack : j > i => stack[j].k # name
  IN stack[i].v

\* The tokens of a range of the source.
RangeTokens(range) == SubSeq(source, range.source_p + 1, range.source_end_p)

\* The branch that closes a loop, from the tokens of its condition: the
\* literal true is CBC_PUSH_TRUE, a logical not ends in CBC_LOGICAL_NOT.
LoopCloseOpcode(condition) ==
  IF condition = << >> THEN "CBC_JUMP_BACKWARD"
  ELSE IF condition[Len(condition)].type = "LEXER_LIT_TRUE"
    THEN "CBC_JUMP_BACKWARD"
  ELSE IF condition[Len(condition)].type = "LEXER_LOGICAL_NOT"
    THEN "CBC_BRANCH_IF_FALSE_BACKWARD"
  ELSE "CBC_BRANCH_IF_TRUE_BACKWARD"

\* How often the update expression of a for statement has the token.
InUpdate(type) ==
  IF stack_top_uint8 # PARSER_STATEMENT_FOR THEN 0
  ELSE LET update == RangeTokens(TopField("for.expression_range"))
       IN Cardinality({ i \in DOMAIN update : update[i].type = type })

\* The step emitted the branch back to the start of the loop, and of the
\* opcode of the token that folds into the branch no more than the update
\* expression has.
LoopClosed(condition, start_offset) ==
  /\ last_cbc_opcode' = PARSER_CBC_UNAVAILABLE
  /\ Len(code') > Len(code)
  /\ code'[Len(code')].op = LoopCloseOpcode(condition)
  /\ code'[Len(code')].arg = Len(code') - 1 - start_offset
  /\ Emitted("CBC_PUSH_TRUE")'
       = Emitted("CBC_PUSH_TRUE") + InUpdate("LEXER_LIT_TRUE")
  /\ Emitted("CBC_LOGICAL_NOT")'
       = Emitted("CBC_LOGICAL_NOT") + InUpdate("LEXER_LOGICAL_NOT")
  /\ LoopCloseOpcode(condition) = "CBC_BRANCH_IF_TRUE_BACKWARD" =>
       code'[Len(code') - 1].op \in {"CBC_PUSH_IDENT", "CBC_PUSH_FALSE"}
  /\ Cardinality({ i \in DOMAIN code' : IsBackwardBranch(code'[i].op) })
       = Cardinality({ i \in DOMAIN code : IsBackwardBranch(code[i].op) }) + 1

\* C25: the backward branch that closes a while or for loop is
\* CBC_BRANCH_IF_TRUE_BACKWARD, but CBC_JUMP_BACKWARD when the condition ends
\* in CBC_PUSH_TRUE or the for statement has no condition, and
\* CBC_BRANCH_IF_FALSE_BACKWARD when it ends in CBC_LOGICAL_NOT; the
\* CBC_PUSH_TRUE or CBC_LOGICAL_NOT is dropped from the cache then and is
\* not in the code.
C25_LoopBackwardBranch ==
  [][/\ pc = "close" /\ pc' # "error" /\ stack_top_uint8 = PARSER_STATEMENT_WHILE =>
          LoopClosed(RangeTokens(TopField("while.condition_range")),
                     TopField("while.start_offset"))
     /\ pc = "close" /\ pc' # "error" /\ stack_top_uint8 = PARSER_STATEMENT_FOR =>
          LoopClosed(RangeTokens(TopField("for.condition_range")),
                     TopField("for.start_offset"))]_vars

\* A for statement whose condition is a logical not has been closed: the
\* branch is CBC_BRANCH_IF_FALSE_BACKWARD and follows the operand.
C25_Witness ==
  /\ lang = "loops"
  /\ pc = "close"
  /\ stack_top_uint8 = PARSER_STATEMENT_START
  /\ Len(code) >= 2
  /\ code[Len(code)].op = "CBC_BRANCH_IF_FALSE_BACKWARD"
  /\ code[Len(code) - 1].op = "CBC_PUSH_IDENT"
  /\ \E i \in DOMAIN source : source[i].type = "LEXER_KEYW_FOR"
  /\ \E i \in DOMAIN source : source[i].type = "LEXER_LOGICAL_NOT"
  /\ Emitted("CBC_LOGICAL_NOT") = 0

\* The end of a do-while statement is parsed to its end.
DoWhileEnds ==
  /\ pc = "close"
  /\ stack_top_uint8 = PARSER_STATEMENT_DO_WHILE
  /\ pc' # "error"

\* The condition of the do-while statement: the token between the
\* parentheses after the while keyword.
DoWhileCondition == << source'[source_p + 2] >>

BackwardBranches(buffer) ==
  Cardinality({ i \in DOMAIN buffer : IsBackwardBranch(buffer[i].op) })

\* C26 as stated: do-while chooses its backward branch by the rule of while
\* and for, and always emits one backward branch to start_offset.
C26_DoWhileAlwaysBranches ==
  [][DoWhileEnds =>
       LoopClosed(DoWhileCondition, TopField("do_while.start_offset"))]_vars

\* C26 as the code has it: do-while chooses its backward branch by the rule
\* of while and for and emits one backward branch to start_offset, unless
\* the condition ends in CBC_PUSH_FALSE: then the CBC_PUSH_FALSE is dropped
\* and no branch is emitted.
C26_DoWhileBranch ==
  [][DoWhileEnds =>
       IF DoWhileCondition[1].type = "LEXER_LIT_FALSE"
         THEN /\ Len(code') = Len(code)
              /\ BackwardBranches(code') = BackwardBranches(code)
              /\ last_cbc_opcode' = PARSER_CBC_UNAVAILABLE
              /\ Emitted("CBC_PUSH_FALSE")' = Emitted("CBC_PUSH_FALSE")
         ELSE LoopClosed(DoWhileCondition,
                         TopField("do_while.start_offset"))]_vars

\* A do-while statement with the condition false has been closed and has
\* left no branch and no push in the code.
C26_Witness ==
  /\ lang = "loops"
  /\ pc = "term"
  /\ stack_top_uint8 = PARSER_STATEMENT_START
  /\ source[1].type = "LEXER_KEYW_DO"
  /\ \E i \in DOMAIN source :
       /\ i >= 3
       /\ source[i].type = "LEXER_LIT_FALSE"
       /\ source[i - 1].type = "LEXER_LEFT_PAREN"
       /\ source[i - 2].type = "LEXER_KEYW_WHILE"
  /\ BackwardBranches(code) = 0
  /\ Emitted("CBC_PUSH_FALSE") = 0

\* The step raised the error and left the stack, the code and the place in
\* the source as they were.
RefusedAtOnce(error) ==
  /\ pc' = "error"
  /\ err' = error
  /\ stack' = stack
  /\ code' = code
  /\ last_cbc_opcode' = last_cbc_opcode
  /\ source_p' = source_p
  /\ token' = token
  /\ stack_depth' = stack_depth
  /\ context_stack_depth' = context_stack_depth

NonStrictArg ==
  Strict /\ "PARSER_HAS_NON_STRICT_ARG" \in status_flags

\* C27: a with statement in a context whose PARSER_IS_STRICT flag is set
\* raises PARSER_ERR_WITH_NOT_ALLOWED before a frame is pushed or code is
\* emitted; a context that has PARSER_IS_STRICT and PARSER_HAS_NON_STRICT_ARG
\* after the directive prologue raises PARSER_ERR_NON_STRICT_ARG_DEFINITION
\* before any statement is parsed.
C27_StrictModeErrors ==
  /\ [](pc \in {"main", "term", "close", "done"} => ~NonStrictArg)
  /\ [][/\ pc = "main" /\ token.type = "LEXER_KEYW_WITH" =>
            IF Strict THEN RefusedAtOnce("PARSER_ERR_WITH_NOT_ALLOWED")
            ELSE err' # "PARSER_ERR_WITH_NOT_ALLOWED"
        /\ (pc = "prologue" /\ ~IsString(token)) \/ pc = "check" =>
            IF NonStrictArg
              THEN RefusedAtOnce("PARSER_ERR_NON_STRICT_ARG_DEFINITION")
              ELSE err' # "PARSER_ERR_NON_STRICT_ARG_DEFINITION"]_vars

\* The with statement after the use strict directive was refused with
\* nothing but START on the stack and no code.
C27_Witness ==
  /\ pc = "error"
  /\ err = "PARSER_ERR_WITH_NOT_ALLOWED"
  /\ Strict
  /\ token.type = "LEXER_KEYW_WITH"
  /\ stack = << U8(PARSER_STATEMENT_START) >>
  /\ code = << >>
  /\ last_cbc_opcode = PARSER_CBC_UNAVAILABLE

(* ------------------------------ vm_loop ------------------------------- *)

\* a & b of C on unsigned values.
RECURSIVE BitAnd(_, _)
BitAnd(a, b) ==
  IF a = 0 \/ b = 0 THEN 0
  ELSE (a % 2) * (b % 2) + 2 * BitAnd(a \div 2, b \div 2)

\* The test of vm_loop as C parses it: == binds tighter than &, so the
\* status flags are masked with the value of the comparison, 1 or 0.
SmallEncodingTest(flags, full_literal_encoding, literal_encoding_small) ==
  BitAnd(flags, IF full_literal_encoding = literal_encoding_small THEN 1 ELSE 0) # 0

\* The parser variables while vm_loop runs.
VmIdle ==
  /\ lang = "vm_loop"
  /\ source = << >>
  /\ token = EosTok(FALSE)
  /\ source_p = 0
  /\ source_end_p = 0
  /\ status_flags = {}
  /\ stack = << >>
  /\ stack_top_uint8 = DataByte
  /\ last_statement = 0
  /\ code = << >>
  /\ last_cbc_opcode = PARSER_CBC_UNAVAILABLE
  /\ stack_depth = 0
  /\ context_stack_depth = 0
  /\ allocated = {}
  /\ heap_fault = FALSE
  /\ scan_range = NoRange
  /\ err = "none"
  /\ pc = "done"
  /\ statement_terminator_required = FALSE

\* vm_loop is entered with a byte-code header; the two constants of the
\* test are defined outside the source at hand and are any values here.
VmInit ==
  /\ VmIdle
  /\ \E flags \in 0..MaxStatusFlags, mask \in 1..MaxStatusFlags,
        small \in 0..MaxStatusFlags :
       vm = [ at |-> "prepare", status_flags |-> flags,
              CBC_CODE_FLAGS_FULL_LITERAL_ENCODING |-> mask,
              cbc_literal_encoding_small |-> small,
              encoding_limit |-> 0, encoding_delta |-> 0 ]

\* Prepare: the limit and the delta of the literal indices are chosen.
VmPrepare ==
  /\ vm.at = "prepare"
  /\ vm' = IF SmallEncodingTest(vm.status_flags,
                                vm.CBC_CODE_FLAGS_FULL_LITERAL_ENCODING,
                                vm.cbc_literal_encoding_small)
             THEN [vm EXCEPT !.at = "execute", !.encoding_limit = 255,
                             !.encoding_delta = 65025]
             ELSE [vm EXCEPT !.at = "execute", !.encoding_limit = 128,
                             !.encoding_delta = 32768]
  /\ UNCHANGED << lang, source, pc, err, statement_terminator_required, token,
                  source_p, source_end_p, status_flags, stack, stack_top_uint8,
                  last_statement, code, last_cbc_opcode, stack_depth,
                  context_stack_depth, allocated, heap_fault, scan_range >>

VmNext == VmPrepare

VmSpec == VmInit /\ [][VmNext]_vars

\* C28: vm_loop selects the encoding limit 255 with the delta 0xfe01 exactly
\* when status_flags & CBC_CODE_FLAGS_FULL_LITERAL_ENCODING equals the value
\* of the small encoding, and the limit 128 with the delta 0x8000 otherwise,
\* for every value of status_flags.
C28_EncodingLimitByFlag ==
  vm.at = "execute" =>
    IF BitAnd(vm.status_flags, vm.CBC_CODE_FLAGS_FULL_LITERAL_ENCODING)
         = vm.cbc_literal_encoding_small
      THEN vm.encoding_limit = 255 /\ vm.encoding_delta = 65025
      ELSE vm.encoding_limit = 128 /\ vm.encoding_delta = 32768

(* ------------------- the symbols of the scan stack -------------------- *)

\* The token a turn of the loop acts on: the current token, and in
\* SCAN_MODE_PROPERTY_NAME the token lexer_scan_identifier reads.
ScanActsOn ==
  IF pc = "SCAN_MODE_PROPERTY_NAME" THEN source'[source_p + 1] ELSE token

\* The step pops the symbol on top of the scan stack.
ScanPops == Len(stack') = Len(stack) - 1

BlockSymbols ==
  {SCAN_STACK_BLOCK_STATEMENT, SCAN_STACK_BLOCK_EXPRESSION,
   SCAN_STACK_BLOCK_PROPERTY}

\* The symbols a closing bracket may pop.
OpenSymbols(type) ==
  CASE type = "LEXER_RIGHT_SQUARE" -> {SCAN_STACK_SQUARE_BRACKETED_EXPRESSION}
    [] type = "LEXER_RIGHT_PAREN" ->
         {SCAN_STACK_PAREN_EXPRESSION, SCAN_STACK_PAREN_STATEMENT}
    [] type = "LEXER_RIGHT_BRACE" ->
         {SCAN_STACK_OBJECT_LITERAL} \cup BlockSymbols
    [] OTHER -> 0..SCAN_STACK_BLOCK_PROPERTY

\* C29: a step of the scanner that pops a symbol on a right square bracket
\* pops SQUARE_BRACKETED_EXPRESSION, on a right parenthesis PAREN_EXPRESSION
\* or PAREN_STATEMENT, on a right brace OBJECT_LITERAL or a BLOCK symbol; HEAD
\* is popped by the return of the scan only; and on a terminator of the call
\* with another symbol than HEAD on top the scan does not return.
C29_BracketsPopTheirSymbol ==
  [][(pc \in ScanModes /\ pc' # "error") =>
       /\ (ScanPops /\ pc' # "returned") =>
            /\ stack_top_uint8 # SCAN_STACK_HEAD
            /\ stack_top_uint8 \in OpenSymbols(ScanActsOn.type)
       /\ (stack_top_uint8 = SCAN_STACK_HEAD /\ pc' # "returned") =>
            /\ Len(stack') >= Len(stack)
            /\ SubSeq(stack', 1, Len(stack)) = stack
       /\ (stack_top_uint8 # SCAN_STACK_HEAD
              /\ token.type \in ScanTerminators(lang)) =>
            (pc' # "returned")]_vars

\* The scan of ( function ( ) { } ) as update expression has returned: the
\* right brace closed the block of the function, the right parenthesis the
\* parenthesis around it, and only the next right parenthesis ended the scan.
C29_Witness ==
  /\ pc = "returned"
  /\ lang = "for.expression"
  /\ token.type = "LEXER_RIGHT_PAREN"
  /\ \E i \in 2..(source_p - 1) :
       /\ source[i].type = "LEXER_LEFT_PAREN"
       /\ source[i + 1].type = "LEXER_KEYW_FUNCTION"
       /\ source[source_p - 2].type = "LEXER_RIGHT_BRACE"
       /\ source[source_p - 1].type = "LEXER_RIGHT_PAREN"

\* C30: at the head of the loop of parser_scan_until the top of the stack is
\* a BLOCK symbol whenever the mode is SCAN_MODE_FUNCTION_ARGUMENTS and
\* OBJECT_LITERAL whenever it is SCAN_MODE_PROPERTY_NAME, so neither
\* PARSER_ASSERT fails.
C30_ModeSymbols ==
  /\ pc = "SCAN_MODE_FUNCTION_ARGUMENTS" => stack_top_uint8 \in BlockSymbols
  /\ pc = "SCAN_MODE_PROPERTY_NAME" =>
       stack_top_uint8 = SCAN_STACK_OBJECT_LITERAL
  /\ err # "PARSER_ASSERT"

\* The scanner is about to read the arguments of an accessor, the second
\* property of an object literal, after the comma that followed the first.
C30_Witness ==
  /\ pc = "SCAN_MODE_FUNCTION_ARGUMENTS"
  /\ stack_top_uint8 = SCAN_STACK_BLOCK_PROPERTY
  /\ \E i \in 2..(source_p - 2) :
       /\ source[i].type = "LEXER_COMMA"
       /\ source[i + 1].type = "LEXER_PROPERTY_GETTER"

(* ------------------------ the range of a scan ------------------------- *)

\* The cursor when the scan was entered: the entry token is the only token
\* of the text then.
ScanEntryCursor == Len(<< "entry" >>)

\* The skipped tokens: those after the entry token and before the current.
ScanSkipped == SubSeq(source, ScanEntryCursor + 1, source_p - 1)

\* The tokens of the range of the scan.
ScanRangeTokens ==
  SubSeq(source, scan_range.source_p + 1, scan_range.source_end_p)

\* The scan has returned on the first token after the var of a for-in head.
ScanOnlyVar ==
  /\ lang = "for.in"
  /\ source_p = ScanEntryCursor + 2
  /\ source[ScanEntryCursor + 1].type = "LEXER_KEYW_VAR"

\* When a scan whose end_type is not case has returned, the range begins at
\* the cursor of the entry and ends at the cursor before the terminator was
\* read: its tokens are the skipped ones, none when the first token is the
\* terminator.
C31_RangeIsAllSkipped ==
  (pc = "returned" /\ lang # "switch.case") =>
    /\ scan_range.source_p = ScanEntryCursor
    /\ scan_range.source_end_p = source_p - 1
    /\ ScanRangeTokens = ScanSkipped

\* C31: when a scan whose end_type is not case has returned, the range
\* begins at the cursor of the entry and ends at the cursor before the
\* terminator was read, so its tokens are the skipped ones, none when the
\* first token is the terminator; but when the terminator is the first token
\* after the var of a for-in head the range is empty, the var is skipped and
\* not in it.
C31_RangeIsSkipped ==
  (pc = "returned" /\ lang # "switch.case") =>
    /\ scan_range.source_p = ScanEntryCursor
    /\ IF ScanOnlyVar
         THEN scan_range.source_end_p = ScanEntryCursor
         ELSE /\ scan_range.source_end_p = source_p - 1
              /\ ScanRangeTokens = ScanSkipped

\* The scan of a while condition has returned with a range of more than two
\* tokens, a bracketed expression among them.
C31_Witness ==
  /\ pc = "returned"
  /\ lang = "while.condition"
  /\ Len(ScanRangeTokens) > 2
  /\ ScanRangeTokens[Len(ScanRangeTokens)].type = "LEXER_RIGHT_SQUARE"

(* ----------------------- the layout of a loop ------------------------- *)

\* The size of the code once the cached opcode is written out.
FlushedSize ==
  Len(code) + (IF last_cbc_opcode = PARSER_CBC_UNAVAILABLE THEN 0 ELSE 1)

\* Where the forward branch at the offset leads after the step.
TargetAfter(offset) == offset + code'[offset + 1].arg

\* The nodes of the continue statements of the loop on top of the stack.
ContinueNodes ==
  LET list == TopField("loop.branch_list_p")
  IN { list[i] : i \in { j \in DOMAIN list : list[j].cont } }

\* The step closes the loop on top: the entry jump leads to entry, the
\* continue statements to continues, and the last instruction goes back to
\* start_offset, the place right after the entry jump.
LoopLaidOut(branch, start_offset, continues, entry) ==
  /\ code'[branch.offset + 1].op = "CBC_JUMP_FORWARD"
  /\ TargetAfter(branch.offset) = entry
  /\ \A n \in ContinueNodes : TargetAfter(n.offset) = continues
  /\ start_offset = branch.offset + 1
  /\ IsBackwardBranch(code'[Len(code')].op)
  /\ Len(code') - 1 - code'[Len(code')].arg = start_offset

\* The opcodes of the code the step added from the offset from up to to.
AddedOpcodes(from, to) == [ i \in 1..(to - from) |-> code'[from + i].op ]

\* The step closes the for statement on top: the code of the update
\* expression, which ends in CBC_POP, comes first, the entry jump leads
\* behind it, and the code of the condition has no CBC_POP.
ForLaidOut(update) ==
  LET entry == TargetAfter(TopField("for.branch").offset)
      first == AddedOpcodes(FlushedSize, entry)
      second == AddedOpcodes(entry, Len(code') - 1)
  IN /\ LoopLaidOut(TopField("for.branch"), TopField("for.start_offset"),
                    FlushedSize, entry)
     /\ entry >= FlushedSize
     /\ update = << >> <=> entry = FlushedSize
     /\ update # << >> => first[Len(first)] = "CBC_POP"
     /\ \A i \in DOMAIN second : second[i] # "CBC_POP"

\* C32: the step that closes a for statement emits the code of the update
\* expression before that of the condition and sets the entry CBC_JUMP_FORWARD
\* to the start of the condition, behind the update, the continue statements
\* to the start of the update; the step that closes a while statement sets
\* the entry jump and the continue statements to the place before the
\* condition; the closing branch goes back to start_offset, which is the size
\* of the code right after the entry jump, taken with no opcode cached.
C32_LoopLayout ==
  [][/\ (pc = "close" /\ pc' # "error"
           /\ stack_top_uint8 = PARSER_STATEMENT_FOR) =>
          ForLaidOut(RangeTokens(TopField("for.expression_range")))
     /\ (pc = "close" /\ pc' # "error"
           /\ stack_top_uint8 = PARSER_STATEMENT_WHILE) =>
          LoopLaidOut(TopField("while.branch"), TopField("while.start_offset"),
                      FlushedSize, FlushedSize)
     /\ (pc = "main" /\ pc' # "error"
           /\ token.type \in {"LEXER_KEYW_FOR", "LEXER_KEYW_WHILE"}
           /\ stack_top_uint8' \in {PARSER_STATEMENT_FOR,
                                    PARSER_STATEMENT_WHILE}) =>
          /\ last_cbc_opcode' = PARSER_CBC_UNAVAILABLE
          /\ code'[Len(code')].op = "CBC_JUMP_FORWARD"
          /\ code'[Len(code')].patched = 0]_vars

\* A for statement with an update expression and a condition, both an
\* identifier, has been closed: the code of the update comes first and the
\* entry jump leads behind it.
C32_Witness ==
  /\ lang = "loops"
  /\ pc = "close"
  /\ stack_top_uint8 = PARSER_STATEMENT_START
  /\ Len(code) = 5
  /\ [ i \in 1..5 |-> code[i].op ]
       = << "CBC_JUMP_FORWARD", "CBC_PUSH_IDENT", "CBC_POP",
            "CBC_PUSH_IDENT", "CBC_BRANCH_IF_TRUE_BACKWARD" >>
  /\ code[1].arg = 3
  /\ code[5].arg = 3

(* ------------------- the cursor across a loop end --------------------- *)

ScannerBytes(from) ==
  /\ \A i \in from..Len(stack) :
       stack[i].k = "u8" /\ stack[i].v \in 0..SCAN_STACK_BLOCK_PROPERTY
  /\ from <= Len(stack) => stack[from].v = SCAN_STACK_HEAD
  /\ \A i \in (from + 1)..Len(stack) : stack[i].v # SCAN_STACK_HEAD

\* C34: when an error has been raised, last_statement is the place of the tag
\* of the topmost frame of the statement stack, the frames from there down to
\* START are whole, and what lies above it are bytes the scanner pushed; it
\* is NULL only when START is popped.  The walk of parser_free_jumps from
\* there reads tags only.
C34_LastStatementAtError ==
  /\ (pc \in {"error", "freed"} /\ last_statement # 0) =>
       /\ last_statement \in DOMAIN stack
       /\ WalkReachesStart(stack, last_statement)
       /\ ScannerBytes(last_statement + 1)
  /\ (pc \in {"error", "freed"} /\ last_statement = 0) => stack = << >>
  /\ pc = "freed" => ~heap_fault

\* An error was raised by the scanner inside a parenthesis, in the head of
\* a statement under a label: HEAD and the parenthesis lie above the tag of
\* the LABEL frame, where last_statement is.
C34_Witness ==
  /\ pc = "error"
  /\ last_statement # 0
  /\ last_statement = Len(stack) - 2
  /\ stack[last_statement].v = PARSER_STATEMENT_LABEL
  /\ stack[last_statement + 1].v = SCAN_STACK_HEAD
  /\ stack[last_statement + 2].v = SCAN_STACK_PAREN_EXPRESSION

(* ------------------- PARSER_IN_WIDTH and the WITH frames -------------- *)

\* The places of the tags of the WITH frames on the statement stack.
WithFrames ==
  { i \in DOMAIN stack :
      stack[i].k = "u8" /\ stack[i].v = PARSER_STATEMENT_WITH }

\* C35: whenever the loop of parser_parse_statements is about to read a
\* statement or to end one, PARSER_IN_WIDTH is set in status_flags exactly
\* when a WITH frame is on the statement stack.
C35_InWidthIffWithFrame ==
  pc \in {"main", "term", "close"} =>
    (("PARSER_IN_WIDTH" \in status_flags) <=> (WithFrames # {}))

\* The inner of two with statements has been closed inside the block of a
\* try statement: the loop reads the next statement of the block, the frame
\* of the outer with statement is below the TRY frame and the flag is set.
C35_Witness ==
  /\ pc = "main"
  /\ "PARSER_IN_WIDTH" \in status_flags
  /\ Cardinality(WithFrames) = 1
  /\ stack_top_uint8 = PARSER_STATEMENT_TRY
  /\ \E i, j, k \in DOMAIN code :
       /\ i < j /\ j < k
       /\ code[i].op = "CBC_EXT_TRY_CREATE_CONTEXT"
       /\ code[j].op = "CBC_EXT_WITH_CREATE_CONTEXT"
       /\ code[k].op = "CBC_CONTEXT_END"

(* ------------------- the case branches of a switch -------------------- *)

\* The list of case branches of the SWITCH frame on top of the stack, and
\* the places in the code of all the branches emitted for case labels.
CaseList == stack[Len(stack) - 2].v

CaseBranchPlaces ==
  { k \in DOMAIN code :
      code[k].op \in {"CBC_BRANCH_IF_STRICT_EQUAL",
                      "CBC_BRANCH_IF_TRUE_FORWARD"} }

\* The list holds the branches that are not yet patched, in the order in
\* which the pre-pass emitted them, each with its node allocated.
CaseListInOrder ==
  /\ \A i \in DOMAIN CaseList :
       /\ CaseList[i].offset + 1 \in CaseBranchPlaces
       /\ CaseList[i].offset \in allocated
       /\ \A j \in DOMAIN CaseList :
            i < j => CaseList[i].offset < CaseList[j].offset
  /\ \A k \in CaseBranchPlaces :
       IF \E i \in DOMAIN CaseList : CaseList[i].offset + 1 = k
         THEN code[k].patched = 0
         ELSE /\ code[k].patched = 1
              /\ k - 1 \notin allocated
              /\ \A i \in DOMAIN CaseList : k < CaseList[i].offset + 1

\* C36: in the body of a switch the list of the frame holds the branches of
\* the case labels still to come, oldest first.  A case label finds the
\* list non-empty, patches the branch at its head to the current position,
\* frees that node and leaves the rest: the k-th label takes the k-th
\* branch of the pre-pass.  The closing brace finds the list empty.
C36_CasesFirstInFirstOut ==
  [][(SwitchOnTop /\ pc \in {"main", "term", "close"}) =>
       /\ CaseListInOrder
       /\ (pc = "main" /\ token.type = "LEXER_KEYW_CASE") =>
            CaseList # << >>
       /\ (pc = "main" /\ token.type = "LEXER_KEYW_CASE" /\ pc' # "error") =>
            (/\ stack'[Len(stack) - 2].v = Tail(CaseList)
             /\ code'[Head(CaseList).offset + 1].patched = 1
             /\ Target(code', Head(CaseList).offset) = Len(code')
             /\ allocated' = allocated \ {Head(CaseList).offset}
             /\ ~heap_fault')
       /\ (pc = "term" /\ token.type = "LEXER_RIGHT_BRACE") =>
            (CaseList = << >>)]_vars

\* The second case label of a switch has been passed: both case branches
\* are patched, both nodes are freed, the list is empty and the closing
\* brace is the current token.
C36_Witness ==
  /\ pc \in {"main", "term"}
  /\ SwitchOnTop
  /\ token.type = "LEXER_RIGHT_BRACE"
  /\ CaseList = << >>
  /\ allocated = {}
  /\ \E j, k \in CaseBranchPlaces :
       /\ j < k
       /\ code[j].op = "CBC_BRANCH_IF_STRICT_EQUAL"
       /\ code[j].patched = 1
       /\ code[k].op = "CBC_BRANCH_IF_TRUE_FORWARD"
       /\ code[k].patched = 1

(* ------------------- else and the innermost if ------------------------ *)

\* The places of the tags of the IF frames below the top of the stack.
OuterIfFrames ==
  { i \in 2..(Len(stack) - 1) :
      stack[i].k = "u8" /\ stack[i].v = PARSER_STATEMENT_IF
        /\ stack[i - 1].k = "if_else.branch" }

\* C37: an else met at the end of a statement goes to the IF frame on top of
\* the stack, the innermost one that is open: its tag becomes ELSE, its
\* branch is replaced by the jump over the else-branch, the else is read
\* and nothing below the frame changes.  The frames that end above an IF
\* frame end without reading the else, and no step closes or changes an IF
\* frame that is not on top: an outer IF frame is there until the ELSE frame
\* above it is popped.
C37_ElseClosesInnermostIf ==
  [][(pc \in {"main", "term", "close"} /\ pc' # "error") =>
       /\ (FrameEnds(PARSER_STATEMENT_IF) /\ token.type = "LEXER_KEYW_ELSE") =>
            (/\ pc' = "main"
             /\ Len(stack') = Len(stack)
             /\ stack_top_uint8' = PARSER_STATEMENT_ELSE
             /\ stack'[Len(stack)].v = PARSER_STATEMENT_ELSE
             /\ stack'[Len(stack) - 1].k = "if_else.branch"
             /\ code'[FrameBranch(Len(stack))].patched = 1
             /\ code'[stack'[Len(stack) - 1].v.offset + 1].op = "CBC_JUMP_FORWARD"
             /\ code'[stack'[Len(stack) - 1].v.offset + 1].patched = 0
             /\ SubSeq(stack', 1, Len(stack) - 2) = SubSeq(stack, 1, Len(stack) - 2)
             /\ (source_p' = source_p + 1 \/ token'.type = "LEXER_EOS"))
       /\ (pc = "close" /\ token.type = "LEXER_KEYW_ELSE" /\ pc' = "close") =>
            (/\ token' = token
             /\ source_p' = source_p
             /\ Len(stack') < Len(stack))
       /\ \A i \in OuterIfFrames :
            (/\ Len(stack') >= i
             /\ stack'[i] = stack[i]
             /\ stack'[i - 1] = stack[i - 1])]_vars

\* if ( a ) if ( a ) ; else: the else has been read, the frame of the inner
\* if statement is an ELSE frame with its jump, and the frame of the outer
\* one is below it, an IF frame with its branch not patched.
C37_Witness ==
  /\ pc = "main"
  /\ Len(stack) >= 5
  /\ stack_top_uint8 = PARSER_STATEMENT_ELSE
  /\ stack[Len(stack) - 2].k = "u8"
  /\ stack[Len(stack) - 2].v = PARSER_STATEMENT_IF
  /\ code[stack[Len(stack) - 1].v.offset + 1].op = "CBC_JUMP_FORWARD"
  /\ code[stack[Len(stack) - 3].v.offset + 1].op = "CBC_BRANCH_IF_FALSE_FORWARD"
  /\ code[stack[Len(stack) - 3].v.offset + 1].patched = 0
  /\ stack[Len(stack) - 3].v.offset < stack[Len(stack) - 1].v.offset

(* ------------------- jumps at and across for-in loops ----------------- *)

\* The frames between the statement and its target frame.
FramesPassed == { i \in TagCells : i > TargetTag }

\* C38: a break without an identifier whose target is a FOR_IN frame emits
\* CBC_JUMP_FORWARD_EXIT_CONTEXT; a continue whose target is the innermost
\* FOR_IN frame, with no WITH and no TRY frame above that frame, emits
\* CBC_JUMP_FORWARD; a continue with an identifier that passes a FOR_IN
\* frame on its way to the loop of the label emits
\* CBC_JUMP_FORWARD_EXIT_CONTEXT.
C38_ForInJumps ==
  [][JumpStatement =>
       /\ (/\ token.type = "LEXER_KEYW_BREAK"
           /\ ~Labelled
           /\ stack[TargetTag].v = PARSER_STATEMENT_FOR_IN) =>
            (JumpOpcode = "CBC_JUMP_FORWARD_EXIT_CONTEXT")
       /\ (/\ token.type = "LEXER_KEYW_CONTINUE"
           /\ stack[TargetTag].v = PARSER_STATEMENT_FOR_IN
           /\ \A i \in FramesPassed : stack[i].v \notin ContextTags) =>
            (JumpOpcode = "CBC_JUMP_FORWARD")
       /\ (/\ token.type = "LEXER_KEYW_CONTINUE"
           /\ Labelled
           /\ \E i \in FramesPassed : stack[i].v = PARSER_STATEMENT_FOR_IN) =>
            (JumpOpcode = "CBC_JUMP_FORWARD_EXIT_CONTEXT")]_vars

\* a : do for ( a in a ) continue a: the jump leaves the context of the
\* for-in loop and its node is in the list of the do loop, marked as a
\* continue; the list of the for-in loop is empty.
C38_Witness ==
  /\ pc = "term"
  /\ stack_top_uint8 = PARSER_STATEMENT_FOR_IN
  /\ LoopOf(<< stack[Len(stack) - 1] >>).branch_list_p = << >>
  /\ code # << >>
  /\ code[Len(code)].op = "CBC_JUMP_FORWARD_EXIT_CONTEXT"
  /\ \E i \in TagCells :
       /\ stack[i].v = PARSER_STATEMENT_DO_WHILE
       /\ LoopOf(<< stack[i - 1] >>).branch_list_p # << >>
       /\ LoopOf(<< stack[i - 1] >>).branch_list_p[1].cont
       /\ LoopOf(<< stack[i - 1] >>).branch_list_p[1].offset = Len(code) - 1

(* ------------------- the closing brace and the end on START ----------- *)

\* START is on top of the statement stack and the token is the current one.
OnStart(type) ==
  stack_top_uint8 = PARSER_STATEMENT_START /\ token.type = type

InClosure == "PARSER_IS_CLOSURE" \in status_flags

\* C39: with START on top of the stack a right brace gets through the
\* statement switch as it is; in the terminator test it ends the parse in a
\* closure, with START popped, last_statement NULL and the brace still the
\* current token, and raises PARSER_ERR_INVALID_RIGHT_SQUARE elsewhere.  The
\* end of the source with START on top raises PARSER_ERR_STATEMENT_EXPECTED
\* in a closure, after START is popped.  The parse ends without an error in
\* these two ways only: at a right brace in a closure, at the end of the
\* source elsewhere.
C39_RightBraceOnStart ==
  [][/\ (pc = "main" /\ OnStart("LEXER_RIGHT_BRACE")) =>
          (/\ pc' = "term"
           /\ stack' = stack
           /\ token' = token
           /\ source_p' = source_p)
     /\ (pc = "term" /\ OnStart("LEXER_RIGHT_BRACE") /\ InClosure) =>
          (/\ pc' = "done"
           /\ err' = "none"
           /\ stack' = << >>
           /\ last_statement' = 0
           /\ token' = token
           /\ source_p' = source_p
           /\ code' = code)
     /\ (pc = "term" /\ OnStart("LEXER_RIGHT_BRACE") /\ ~InClosure) =>
          (/\ pc' = "error"
           /\ err' = "PARSER_ERR_INVALID_RIGHT_SQUARE"
           /\ stack' = stack)
     /\ (pc = "main" /\ OnStart("LEXER_EOS") /\ InClosure) =>
          (/\ pc' = "error"
           /\ err' = "PARSER_ERR_STATEMENT_EXPECTED"
           /\ stack' = << >>
           /\ last_statement' = 0)
     /\ (pc # "done" /\ pc' = "done") =>
          (/\ Len(stack) = 1
           /\ stack_top_uint8 = PARSER_STATEMENT_START
           /\ IF InClosure THEN pc = "term" /\ token.type = "LEXER_RIGHT_BRACE"
                ELSE pc = "main" /\ token.type = "LEXER_EOS")]_vars

\* The statements of a function body have been parsed up to its closing
\* brace: the stack is empty, last_statement is NULL and the brace is the
\* current token, left for the caller.
C39_Witness ==
  /\ pc = "done"
  /\ InClosure
  /\ err = "none"
  /\ stack = << >>
  /\ last_statement = 0
  /\ token.type = "LEXER_RIGHT_BRACE"
  /\ token = source[source_p]
  /\ code # << >>

(* ------------------- the value stack of vm_loop ----------------------- *)

\* The values of the model: the word of zeroes of static storage and of
\* `left_value = 0`, the simple value undefined, and numbers.
Zero == [type |-> "zero", v |-> 0]
Undefined == [type |-> "undefined", v |-> 0]
Number(n) == [type |-> "number", v |-> n]

\* The literals of the byte-code header: literal_start_p[index].
VmLiteral(index) == Number(index + 1)

\* vm_op_add: operands of two types, booleans, strings and objects give
\* undefined, undefined and null give the left operand, numbers their sum.
\* The word of zeroes is taken for a value that is none of those.
vm_op_add(lhs, rhs) ==
  IF lhs.type # rhs.type THEN Undefined
  ELSE IF lhs.type = "undefined" THEN lhs
  ELSE IF lhs.type = "number" THEN Number(lhs.v + rhs.v)
  ELSE Undefined

\* The opcodes that vm_decode_cbc gives a decoding of its own: 0x08, 0x10,
\* 0x74, 0x75, 0x76.
VmOpcodes == {8, 16, 116, 117, 118}

vm_decode_cbc(opcode) ==
  CASE opcode = 8 ->
         [group |-> "VM_OC_GROUP_POP", left |-> "VM_OC_OP_NONE",
          right |-> "VM_OC_OP_NONE", post |-> "VM_OC_POST_NONE"]
    [] opcode = 16 ->
         [group |-> "VM_OC_GROUP_RET", left |-> "VM_OC_OP_NONE",
          right |-> "VM_OC_OP_NONE", post |-> "VM_OC_POST_PUSH_RESULT"]
    [] opcode = 116 ->
         [group |-> "VM_OC_GROUP_ADD", left |-> "VM_OC_OP_STACK",
          right |-> "VM_OC_OP_STACK", post |-> "VM_OC_POST_PUSH_RESULT"]
    [] opcode = 117 ->
         [group |-> "VM_OC_GROUP_ADD", left |-> "VM_OC_OP_STACK",
          right |-> "VM_OC_OP_LITERAL", post |-> "VM_OC_POST_PUSH_RESULT"]
    [] OTHER ->
         [group |-> "VM_OC_GROUP_ADD", left |-> "VM_OC_OP_LITERAL",
          right |-> "VM_OC_OP_LITERAL", post |-> "VM_OC_POST_PUSH_RESULT"]

\* *vm_stack_top_p: the value at the place, zero where nothing was written;
\* vm_stack is kept as the values written from its first place on.
VmStackRead(s) ==
  IF s.vm_stack_top_p + 1 \in DOMAIN s.vm_stack
    THEN s.vm_stack[s.vm_stack_top_p + 1] ELSE Zero

\* vm_stack_top_p points into vm_stack, so that it may be read or written.
VmInStack(s) == s.vm_stack_top_p \in 0..(VmStackSize - 1)

\* value = *(vm_stack_top_p--), after JERRY_ASSERT (vm_stack_top_p > vm_stack).
\* A read outside the array gives any value.
VmFetch(s, operand, other) ==
  IF s.at # "execute" THEN s
  ELSE IF s.vm_stack_top_p <= 0 THEN [s EXCEPT !.at = "assert"]
  ELSE [s EXCEPT ![operand] = IF VmInStack(s) THEN VmStackRead(s) ELSE other,
                 !.out_of_bounds = @ \/ ~VmInStack(s),
                 !.vm_stack_top_p = @ - 1]

\* The operand of an instruction: from the stack, a literal, or none.
VmOperand(s, kind, operand, index, other) ==
  IF s.at # "execute" THEN s
  ELSE IF kind = "VM_OC_OP_STACK" THEN VmFetch(s, operand, other)
  ELSE IF kind = "VM_OC_OP_LITERAL"
    THEN [s EXCEPT ![operand] = VmLiteral(index)]
  ELSE s

\* The group of the instruction; a return takes left_value or undefined,
\* as the opcode is CBC_RETURN or CBC_RETURN_WITH_UNDEFINED.
VmGroup(s, group, returned) ==
  IF s.at # "execute" THEN s
  ELSE IF group = "VM_OC_GROUP_ADD"
    THEN [s EXCEPT !.result = vm_op_add(s.left_value, s.right_value)]
  ELSE IF group = "VM_OC_GROUP_POP"
    THEN [s EXCEPT !.vm_stack_top_p = @ - 1]
  ELSE [s EXCEPT !.result = IF returned THEN s.left_value ELSE Undefined]

\* *(vm_stack_top_p++) = result.  A write outside the array goes to other
\* memory, or ends the run.
VmPush(s, crash) ==
  IF ~VmInStack(s)
    THEN [s EXCEPT !.out_of_bounds = TRUE,
                   !.at = IF crash THEN "crash" ELSE @,
                   !.vm_stack_top_p = @ + 1]
  ELSE [s EXCEPT !.vm_stack =
                   IF s.vm_stack_top_p + 1 \in DOMAIN @
                     THEN [@ EXCEPT ![s.vm_stack_top_p + 1] = s.result]
                     ELSE Append(@, s.result),
                 !.vm_stack_top_p = @ + 1]

VmPost(s, post, crash) ==
  IF s.at # "execute" THEN s
  ELSE IF post = "VM_OC_POST_PUSH_RESULT" THEN VmPush(s, crash)
  ELSE s

\* leave is set after a return.
VmLeave(s, group) ==
  IF s.at = "execute" /\ group = "VM_OC_GROUP_RET"
    THEN [s EXCEPT !.at = "left"] ELSE s

\* One turn of the loop of vm_loop on the instruction at byte_code_p.
VmTurn(s, opcode, left, right, returned, crash, other) ==
  LET decoded_opcode == vm_decode_cbc(opcode)
      Begin ==
        [s EXCEPT !.byte_code = Append(@, << opcode, left, right >>),
                  !.decoded_opcode = decoded_opcode,
                  !.left_value = Zero, !.right_value = Zero]
      Right(s1) ==
        VmOperand(s1, decoded_opcode.right, "right_value", right, other)
      Group(s2) == VmGroup(s2, decoded_opcode.group, returned)
      Post(s3) == VmPost(s3, decoded_opcode.post, crash)
  IN VmLeave(Post(Group(Right(
       VmOperand(Begin, decoded_opcode.left, "left_value", left, other)))),
       decoded_opcode.group)

\* vm_loop is entered for the first time: vm_stack holds zeroes and
\* vm_stack_top_p is vm_stack.
VmLoopInit ==
  /\ VmIdle
  /\ \E flags \in 0..MaxVmFlags, mask \in 1..(1 + MaxVmFlags),
        small \in 0..MaxVmFlags :
       vm = [ at |-> "prepare", status_flags |-> flags,
              CBC_CODE_FLAGS_FULL_LITERAL_ENCODING |-> mask,
              cbc_literal_encoding_small |-> small,
              encoding_limit |-> 0, encoding_delta |-> 0,
              byte_code |-> << >>, decoded_opcode |-> vm_decode_cbc(8),
              left_value |-> Zero, right_value |-> Zero, result |-> Zero,
              vm_stack |-> << >>, vm_stack_top_p |-> 0,
              out_of_bounds |-> FALSE ]

\* The instructions the byte code may have at byte_code_p: an opcode and
\* the literal indices it takes.
VmInstructions ==
  { i \in VmOpcodes \X (0..(MaxVmLiteral - 1)) \X (0..(MaxVmLiteral - 1)) :
      /\ vm_decode_cbc(i[1]).left # "VM_OC_OP_LITERAL" => i[2] = 0
      /\ vm_decode_cbc(i[1]).right # "VM_OC_OP_LITERAL" => i[3] = 0 }

VmExecute ==
  /\ vm.at = "execute"
  /\ Len(vm.byte_code) < MaxVmCode
  /\ \E i \in VmInstructions, returned \in BOOLEAN, crash \in BOOLEAN,
        other \in {Zero, Undefined} :
       vm' = VmTurn(vm, i[1], i[2], i[3], returned, crash, other)
  /\ UNCHANGED << lang, source, pc, err, statement_terminator_required, token,
                  source_p, source_end_p, status_flags, stack, stack_top_uint8,
                  last_statement, code, last_cbc_opcode, stack_depth,
                  context_stack_depth, allocated, heap_fault, scan_range >>

VmLoopNext == VmPrepare \/ VmExecute

VmLoopSpec == VmLoopInit /\ [][VmLoopNext]_vars

\* The turn of the loop takes its left operand from the stack right after a
\* turn that pushed its result.
FetchAfterPush ==
  /\ vm.at = "execute"
  /\ vm.byte_code # << >>
  /\ vm.decoded_opcode.post = "VM_OC_POST_PUSH_RESULT"
  /\ vm'.byte_code # vm.byte_code
  /\ vm'.decoded_opcode.left = "VM_OC_OP_STACK"
  /\ vm'.at # "assert"

\* C40: the value that a turn of vm_loop pushes is the value that the next
\* turn reads as its operand from the stack, and vm_stack_top_p points into
\* vm_stack, or just behind its last value, after every turn in which no
\* assertion failed.
C40_LastInFirstOut ==
  [][/\ FetchAfterPush => (vm'.left_value = vm.result)
     /\ (vm'.at \in {"execute", "left"}) =>
          (vm'.vm_stack_top_p \in 0..VmStackSize)]_vars

====
